---------------------------- MODULE Spec2Model ----------------------------
(***************************************************************************)
(* A model of the mount-alignment optimizer: the MotorController of        *)
(* src/main/motor_control.py (grouped write / grouped read / convergence   *)
(* wait / disconnect) and the optimisation loop of src/main/main.py         *)
(* (objective evaluation, coordinate scan, surrogate phase), and the       *)
(* position codec of src/CUAServoMirror/blacs_workers.py.                  *)
(*                                                                         *)
(* Time is counted in ticks of the poll interval (time.sleep(0.01)).       *)
(* Servos are numbered 1..4 in the order servo1_id..servo4_id.             *)
(***************************************************************************)
EXTENDS Integers, Sequences, FiniteSets, TLC

VARIABLES
    \* ---- MotorController object and the servo bus -----------------------
    is_connected,     \* MotorController.is_connected
    port_open,        \* the PortHandler's port is open
    syncWriteParams,  \* GroupSyncWrite's staged <<servo, word>> list
    syncReadParams,   \* GroupSyncRead's servo list
    goal,             \* goal-position register of each servo
    present,          \* present position of each servo
    call,             \* what the last MotorController call did
    wfp,              \* the frame of the running wait_for_positions call
    \* ---- main.py ---------------------------------------------------------
    oscilloscope,     \* the OscilloscopeReader: [is_connected]
    fr,               \* the frame of main() and optimization(): locals and pc
    ev,               \* what the current call of set_motor_positions and the
                      \* sampling after it did: [point, in_range, log],
                      \* and the buffer of the last read_values: data
    \* ---- blacs_workers.py ------------------------------------------------
    codec,            \* the last call of encoder or decoder: [op, arg, ret]
    worker            \* the CUAServoMirrorWorker: its two last_position fields,
                      \* the goal registers of its servos and its last call

mcVars == <<is_connected, port_open, syncWriteParams, syncReadParams,
            goal, present, call, wfp>>

mainVars == <<oscilloscope, fr, ev, codec, worker>>

vars == <<mcVars, mainVars>>

-----------------------------------------------------------------------------
(* Bounds of the check *)

\* the timeout, in ticks, of the waits that are given one (0.2 s = 20 ticks)
TestTimeout == 20
\* polls counted per wait (the counter saturates here)
MaxPolls == 24
\* longest time, in ticks, one grouped read may take
MaxReadLatency == 1
\* half-width of the first scan window (500 in main.py) and the first scan
\* step (10 in main.py), scaled down
ScanMargin0 == 2
ScanStep0 == 2
\* the timeout set_motor_positions gives wait_for_positions (5.0 s in
\* main.py), in ticks, scaled down
SetTimeout == 1
\* largest manual_search_iterations and optimization_iterations
MaxManualIters == 2
MaxOptIters == 2
\* positions proposed by the surrogate are multiples of 1/FRAC
FRAC == 2
\* arguments of encoder and decoder are taken this far on either side of
\* the values their comparisons name
CodecSpan == 3

\* outer iterations of the scan against a noiseless instrument
ConvIters == 3

\* outer iterations of the scan run with the source's margin and step
SchedIters == 6

-----------------------------------------------------------------------------
(* Helpers *)

Servos == 1..4

Abs(x) == IF x < 0 THEN -x ELSE x

Min(a, b) == IF a < b THEN a ELSE b

Max(a, b) == IF a > b THEN a ELSE b

\* [SCS_LOBYTE(p), SCS_HIBYTE(p)] put together again: the low 16 bits of p
WireWord(p) == p % 65536

\* time.sleep(0.01): one tick
POLL_INTERVAL == 1

MIN_POSITION == 500

MAX_POSITION == 3500

\* the positions main() commands before it optimizes
HOME == <<1500, 2800, 2000, 1800>>


-----------------------------------------------------------------------------
(* MotorController: src/main/motor_control.py *)

\* the record every MotorController call leaves behind, for the properties:
\*   op        the method called
\*   raised    it ended by raising
\*   ret       its return value (TRUE where the method returns nothing)
\*   staged    addParam calls of the grouped write that succeeded
\*   tx        grouped transmits (txPacket) issued
\*   sent      the <<servo, word>> list a successful transmit carried
\*   reads     grouped read transactions (txRxPacket) issued
\*   torque    servos a torque-enable write was issued to
\*   was_conn  is_connected when the call began
\*   args      the positions a set_goal_positions call was written with
\*   found     the staged list of the grouped write when the call began
NoCall ==
    [op |-> "none", raised |-> FALSE, ret |-> TRUE, staged |-> 0, tx |-> 0,
     sent |-> <<>>, reads |-> 0, torque |-> {}, was_conn |-> FALSE,
     args |-> <<>>, found |-> <<>>, opened |-> FALSE, closed |-> FALSE]

\* what the environment may do to connect(): nothing, openPort fails,
\* setBaudRate fails, addParam of servo k fails, or a call raises
ConnectFaults == {"none", "open", "baud", "add1", "add2", "add3", "add4", "exception"}

AddFailIndex(fault) ==
    CASE fault = "add1" -> 1 [] fault = "add2" -> 2
      [] fault = "add3" -> 3 [] fault = "add4" -> 4 [] OTHER -> 0

\* a connect that returns False on a baud-rate failure without closing the
\* port it opened
connect_LeavesOpen(fault) ==
    LET k == AddFailIndex(fault) IN
    CASE fault = "open" ->
           [ret |-> FALSE, connected |-> FALSE, port |-> FALSE, readParams |-> <<>>,
            opened |-> FALSE, closed |-> FALSE]
      [] fault = "baud" ->
           [ret |-> FALSE, connected |-> FALSE, port |-> TRUE, readParams |-> <<>>,
            opened |-> TRUE, closed |-> FALSE]
      [] k # 0 ->
           [ret |-> FALSE, connected |-> FALSE, port |-> FALSE,
            readParams |-> [j \in 1..(k - 1) |-> j],
            opened |-> TRUE, closed |-> TRUE]
      [] fault = "exception" ->
           [ret |-> FALSE, connected |-> FALSE, port |-> FALSE, readParams |-> <<>>,
            opened |-> TRUE, closed |-> TRUE]
      [] OTHER ->
           [ret |-> TRUE, connected |-> TRUE, port |-> TRUE,
            readParams |-> [j \in 1..4 |-> j],
            opened |-> TRUE, closed |-> FALSE]

\* connect(): the object's fields after the call, the value returned, whether
\* openPort succeeded and whether closePort was called. The exception is one
\* raised by a step after openPort
connect(fault) ==
    LET k == AddFailIndex(fault) IN
    CASE fault = "open" ->
           [ret |-> FALSE, connected |-> FALSE, port |-> FALSE, readParams |-> <<>>,
            opened |-> FALSE, closed |-> FALSE]
      [] fault = "baud" ->
           [ret |-> FALSE, connected |-> FALSE, port |-> FALSE, readParams |-> <<>>,
            opened |-> TRUE, closed |-> TRUE]
      [] k # 0 ->
           [ret |-> FALSE, connected |-> FALSE, port |-> FALSE,
            readParams |-> [j \in 1..(k - 1) |-> j],
            opened |-> TRUE, closed |-> TRUE]
      [] fault = "exception" ->
           [ret |-> FALSE, connected |-> FALSE, port |-> FALSE, readParams |-> <<>>,
            opened |-> TRUE, closed |-> TRUE]
      [] OTHER ->
           [ret |-> TRUE, connected |-> TRUE, port |-> TRUE,
            readParams |-> [j \in 1..4 |-> j],
            opened |-> TRUE, closed |-> FALSE]

\* outcomes of packetHandler.write1ByteTxRx: success, a communication
\* failure (scs_comm_result != COMM_SUCCESS) or a servo error (scs_error != 0)
WriteOutcomes == {"ok", "comm", "servo_error"}

\* set_acceleration(servo, acc): does it raise, and was the write issued
set_acceleration(connected, outcome) ==
    IF ~connected
    THEN [raised |-> TRUE, issued |-> FALSE]
    ELSE [raised |-> outcome # "ok", issued |-> TRUE]

\* a set_speed that writes without looking at is_connected
set_speed_Unguarded(connected, outcome) ==
    [raised |-> outcome # "ok", issued |-> TRUE]

\* set_speed(servo, speed): does it raise, and was the write issued
set_speed(connected, outcome) ==
    IF ~connected
    THEN [raised |-> TRUE, issued |-> FALSE]
    ELSE [raised |-> outcome # "ok", issued |-> TRUE]

\* configure_servos(acc, speed): set_acceleration and set_speed of servo 1,
\* then of servo 2, 3 and 4, stopping at the first that raises; outcomes[j]
\* is the outcome of the j-th write; writes counts the writes issued
RECURSIVE ConfigureFrom(_, _, _)
ConfigureFrom(j, connected, outcomes) ==
    IF j > 8
    THEN [raised |-> FALSE, writes |-> 0]
    ELSE LET r == IF j % 2 = 1 THEN set_acceleration(connected, outcomes[j])
                  ELSE set_speed(connected, outcomes[j])
             n == IF r.issued THEN 1 ELSE 0
         IN  IF r.raised
             THEN [raised |-> TRUE, writes |-> n]
             ELSE LET rest == ConfigureFrom(j + 1, connected, outcomes) IN
                  [raised |-> rest.raised, writes |-> n + rest.writes]

configure_servos(connected, outcomes) ==
    IF ~connected
    THEN [raised |-> TRUE, writes |-> 0]
    ELSE ConfigureFrom(1, connected, outcomes)

\* set_torque_enable(servo, enable): does it raise, and was the write issued
set_torque_enable(connected, outcome) ==
    IF ~connected
    THEN [raised |-> TRUE, issued |-> FALSE]
    ELSE [raised |-> outcome # "ok", issued |-> TRUE]

\* the four set_torque_enable calls of disconnect(), in order, stopping at
\* the first that raises: <<servos written to, some call raised>>
RECURSIVE TorqueOffFrom(_, _, _)
TorqueOffFrom(k, connected, outcomes) ==
    IF k > 4
    THEN [issued |-> {}, raised |-> FALSE]
    ELSE LET r == set_torque_enable(connected, outcomes[k]) IN
         IF r.raised
         THEN [issued |-> IF r.issued THEN {k} ELSE {}, raised |-> TRUE]
         ELSE LET rest == TorqueOffFrom(k + 1, connected, outcomes) IN
              [issued |-> (IF r.issued THEN {k} ELSE {}) \cup rest.issued,
               raised |-> rest.raised]

\* disconnect(): everything sits in one try block, so the first write that
\* raises skips the remaining writes, clearParam, closePort and the
\* is_connected = False assignment; the exception is printed, not raised
disconnect(connected, port, readParams, outcomes) ==
    IF ~(port /\ connected)
    THEN [connected |-> connected, port |-> port, readParams |-> readParams,
          torque |-> {}, raised |-> FALSE]
    ELSE LET t == TorqueOffFrom(1, connected, outcomes) IN
         IF t.raised
         THEN [connected |-> connected, port |-> port, readParams |-> readParams,
               torque |-> t.issued, raised |-> FALSE]
         ELSE [connected |-> FALSE, port |-> FALSE, readParams |-> <<>>,
               torque |-> t.issued, raised |-> FALSE]

\* a clearParam that leaves the staged list as it is
clearParam_Keeps(params) == params

\* GroupSyncWrite.clearParam()
clearParam(params) == <<>>

\* the staged list after addParam succeeded for servos 1..n
StagedParams(params, p, n) ==
    params \o [k \in 1..n |-> <<k, WireWord(p[k])>>]

\* set_goal_positions transmitting whatever was staged when an addParam fails
set_goal_positions_NoAbort(connected, params0, p, stageFail, txFail) ==
    LET n == IF stageFail # 0 THEN stageFail - 1 ELSE 4 IN
    IF ~connected
    THEN [raised |-> TRUE, staged |-> 0, tx |-> 0, sent |-> <<>>,
          params |-> params0, delivered |-> FALSE]
    ELSE IF txFail
    THEN [raised |-> TRUE, staged |-> n, tx |-> 1, sent |-> <<>>,
          params |-> StagedParams(<<>>, p, n), delivered |-> FALSE]
    ELSE [raised |-> stageFail # 0, staged |-> n, tx |-> 1,
          sent |-> StagedParams(<<>>, p, n), params |-> <<>>,
          delivered |-> TRUE]

\* set_goal_positions(p1, p2, p3, p4); params0 is the staged list the call
\* finds, stageFail = k means addParam fails for servo k (0: none fails),
\* txFail that txPacket does not return COMM_SUCCESS
set_goal_positions(connected, params0, p, stageFail, txFail) ==
    LET cleared == clearParam(params0) IN
    IF ~connected
    THEN [raised |-> TRUE, staged |-> 0, tx |-> 0, sent |-> <<>>,
          params |-> params0, delivered |-> FALSE]
    ELSE IF stageFail # 0
    THEN [raised |-> TRUE, staged |-> stageFail - 1, tx |-> 0, sent |-> <<>>,
          params |-> StagedParams(cleared, p, stageFail - 1),
          delivered |-> FALSE]
    ELSE IF txFail
    THEN [raised |-> TRUE, staged |-> 4, tx |-> 1, sent |-> <<>>,
          params |-> StagedParams(cleared, p, 4), delivered |-> FALSE]
    ELSE [raised |-> FALSE, staged |-> 4, tx |-> 1,
          sent |-> StagedParams(cleared, p, 4),
          params |-> clearParam(StagedParams(cleared, p, 4)),
          delivered |-> TRUE]

\* a call that takes the positions it is given, as many as there are, and
\* ignores a fifth
Call_set_goal_positions_Lenient(connected, params0, args, stageFail, txFail) ==
    IF Len(args) < 4
    THEN [raised |-> TRUE, staged |-> IF connected THEN Len(args) ELSE 0,
          tx |-> 0, sent |-> <<>>,
          params |-> IF connected
                     THEN [k \in 1..Len(args) |-> <<k, WireWord(args[k])>>]
                     ELSE params0,
          delivered |-> FALSE]
    ELSE set_goal_positions(connected, params0, SubSeq(args, 1, 4),
                            stageFail, txFail)

\* a call motor_controller.set_goal_positions(*args): the method has the four
\* positional parameters position1 .. position4 and no defaults, so a call
\* with any other number of positions raises TypeError where it is made and
\* the body does not run
Call_set_goal_positions(connected, params0, args, stageFail, txFail) ==
    IF Len(args) # 4
    THEN [raised |-> TRUE, staged |-> 0, tx |-> 0, sent |-> <<>>,
          params |-> params0, delivered |-> FALSE]
    ELSE set_goal_positions(connected, params0, args, stageFail, txFail)

\* the goal registers after a grouped write carrying `sent` was delivered
GoalAfter(g, sent) ==
    [k \in Servos |->
        IF \E j \in 1..Len(sent) : sent[j][1] = k
        THEN (CHOOSE w \in {sent[j][2] : j \in {i \in 1..Len(sent) : sent[i][1] = k}} : TRUE)
        ELSE g[k]]

\* a read_positions that keeps the zeros of its result for the servos
\* whose data is not available
read_positions_Partial(connected, pos, readFail) ==
    IF ~connected
    THEN [raised |-> TRUE, reads |-> 0, position |-> <<>>]
    ELSE IF readFail = 5
    THEN [raised |-> TRUE, reads |-> 1, position |-> <<>>]
    ELSE [raised |-> FALSE, reads |-> 1,
          position |-> [k \in Servos |->
                          IF readFail # 0 /\ k >= readFail THEN 0
                          ELSE WireWord(pos[k])]]

\* read_positions(); readFail = 5: txRxPacket fails, k in 1..4: isAvailable
\* is false for servo k, 0: the four positions are returned
read_positions(connected, pos, readFail) ==
    IF ~connected
    THEN [raised |-> TRUE, reads |-> 0, position |-> <<>>]
    ELSE IF readFail # 0
    THEN [raised |-> TRUE, reads |-> 1, position |-> <<>>]
    ELSE [raised |-> FALSE, reads |-> 1,
          position |-> [k \in Servos |-> WireWord(pos[k])]]

\* high words the servos may answer with: the present speed as 15 bits of
\* magnitude under a sign bit
SpeedWords ==
    { <<0, 0, 0, 0>>, <<5, 32773, 32767, 32768>> }

\* SCS_TOHOST(a, b) of scservo_sdk: bit b of a is the sign
SCS_TOHOST(a, b) ==
    IF (a \div 2^b) % 2 = 1 THEN 0 - (a - 2^b) ELSE a

\* the dict read_positions returns, from the low words r.position and the
\* high words hi of the servos' data; nothing when the call raised
ReadResult(r, hi) ==
    IF r.raised THEN <<>>
    ELSE [k \in Servos |->
            [position |-> r.position[k], speed |-> SCS_TOHOST(hi[k], 15)]]

\* the frame of a wait_for_positions call that has not started; elapsed is
\* time.time() - start_time now, checked its value at the last timeout test
NoWait ==
    [active |-> FALSE, goals |-> <<>>, threshold |-> 0, has_timeout |-> FALSE,
     timeout |-> 0, elapsed |-> 0, checked |-> 0, polls |-> 0, result |-> "none",
     last |-> <<>>]

\* wait_for_positions(g1, g2, g3, g4, threshold, timeout): start_time is taken
wait_begin(goals, threshold, has_timeout, timeout) ==
    [active |-> TRUE, goals |-> goals, threshold |-> threshold,
     has_timeout |-> has_timeout, timeout |-> timeout, elapsed |-> 0,
     checked |-> 0, polls |-> 0, result |-> "none", last |-> <<>>]

\* the convergence test with < in place of <=
Reached_Strict(goals, position, threshold) ==
    \A k \in Servos : Abs(goals[k] - position[k]) < threshold

\* all four differences are within the threshold (inclusive)
Reached(goals, position, threshold) ==
    \A k \in Servos : Abs(goals[k] - position[k]) <= threshold

\* the elapsed time with start_time taken anew in every turn of the loop
Elapse_Restart(w, d) ==
    IF w.has_timeout THEN Min(d, w.timeout + 1) ELSE w.elapsed

\* the elapsed time is only compared with the timeout: it is counted up to
\* timeout + 1, and not at all when timeout is None
Elapse(w, d) ==
    IF w.has_timeout THEN Min(w.elapsed + d, w.timeout + 1) ELSE w.elapsed

\* one turn of wait_for_positions' loop: read_positions (taking `latency`
\* ticks), the convergence test, the timeout test, time.sleep(0.01)
wait_poll(w, connected, pos, readFail, latency) ==
    LET r == read_positions(connected, pos, readFail)
        n == Min(w.polls + 1, MaxPolls)
        now == Elapse(w, latency)
    IN  IF r.raised
        THEN [w EXCEPT !.active = FALSE, !.result = "raised", !.polls = n,
                       !.elapsed = now, !.last = <<>>]
        ELSE IF Reached(w.goals, r.position, w.threshold)
        THEN [w EXCEPT !.active = FALSE, !.result = "true", !.polls = n,
                       !.elapsed = now, !.last = r.position]
        ELSE IF w.has_timeout /\ now > w.timeout
        THEN [w EXCEPT !.active = FALSE, !.result = "false", !.polls = n,
                       !.elapsed = now, !.last = r.position]
        ELSE [w EXCEPT !.polls = n, !.last = r.position, !.checked = now,
                       !.elapsed = Elapse([w EXCEPT !.elapsed = now], POLL_INTERVAL)]

-----------------------------------------------------------------------------
(* main.py: the locals of main() and optimization() *)

-----------------------------------------------------------------------------
(* blacs_workers.py: encoder and decoder *)

\* np.clip(x, lo, hi)
Clip(x, lo, hi) == IF x < lo THEN lo ELSE IF x > hi THEN hi ELSE x

\* what a function returns: a value, or None when it falls off its end
Value(v) == [none |-> FALSE, value |-> v]
None == [none |-> TRUE, value |-> 0]

\* an encoder whose second branch adds one more
encoder_OffByOne(x) ==
    LET c == Clip(x, -32000, 32000) IN
    IF c >= 0 /\ c <= 32767 THEN Value(c)
    ELSE IF c < 0 /\ c >= -32767 THEN Value(-c + 32768)
    ELSE None

\* an encoder that does not clip its argument
encoder_NoClip(x) ==
    IF x >= 0 /\ x <= 32767 THEN Value(x)
    ELSE IF x < 0 /\ x >= -32767 THEN Value(-x + 32767)
    ELSE None

encoder(x) ==
    LET c == Clip(x, -32000, 32000) IN
    IF c >= 0 /\ c <= 32767 THEN Value(c)
    ELSE IF c < 0 /\ c >= -32767 THEN Value(-c + 32767)
    ELSE None

\* a decoder that does not clip its argument
decoder_NoClip(x) ==
    IF x >= 0 /\ x <= 32767 THEN Value(x)
    ELSE IF x > 32767 /\ x <= 65534 THEN Value(-x + 32767)
    ELSE None

decoder(x) ==
    LET c == Clip(x, 0, 65534) IN
    IF c >= 0 /\ c <= 32767 THEN Value(c)
    ELSE IF c > 32767 /\ c <= 65534 THEN Value(-c + 32767)
    ELSE None

\* test_encoder_decoder.py: its own encoder, clipping to [-2**15, 2**15-1]
test_encoder(x) ==
    LET c == Clip(x, -32768, 32767) IN
    IF c >= 0 /\ c <= 32767 THEN Value(c)
    ELSE IF c < 0 /\ c >= -32768 THEN Value(-c + 32768 + 100)
    ELSE None

\* test_encoder_decoder.py: its own decoder, clipping to [0, 2**16-1]
test_decoder(x) ==
    LET c == Clip(x, 0, 65535) IN
    IF c >= 0 /\ c <= 32767 THEN Value(c)
    ELSE IF c >= 32768 /\ c <= 65535 THEN Value(-c + 32768 - 1)
    ELSE None

NoCodec == [op |-> "none", arg |-> 0, ret |-> Value(0)]

\* mirror_mapping_dict: the (horizontal, vertical) servo ids of each mirror
mirror_mapping_dict ==
    [mirror \in {"mirror_1", "mirror_2"} |->
        IF mirror = "mirror_1" THEN <<1, 2>> ELSE <<3, 4>>]

Mirrors == DOMAIN mirror_mapping_dict

\* the worker after init(): no last position, and goal registers that hold
\* what the servos were left with
NoWorker ==
    [last_position_horizontal |-> None, last_position_vertical |-> None,
     reg |-> [id \in 1..4 |-> 0],
     call |-> [op |-> "none", fresh |-> TRUE, table |-> <<>>, ret |-> <<>>,
               writes |-> <<>>]]

\* packet_handler.write2ByteTxRx of a goal position: the register takes the
\* value when the write succeeds; check_error only prints
WriteGoal(reg, id, value, outcome) ==
    IF outcome = "ok" THEN [reg EXCEPT ![id] = value] ELSE reg

\* set_position(mirror_name, horizontal_position, vertical_position, fresh):
\* the worker after the call. What the call returned (the pair written, or
\* <<>> for None) and the outcomes of its writes are appended to call.ret
\* and call.writes
set_position(w, mirror_name, horizontal_position, vertical_position, fresh, outcomes) ==
    LET h == encoder(horizontal_position)
        v == encoder(vertical_position)
        ids == mirror_mapping_dict[mirror_name]
    IN  IF \/ fresh
           \/ w.last_position_horizontal # h
           \/ w.last_position_vertical # v
        THEN [w EXCEPT !.reg = WriteGoal(WriteGoal(w.reg, ids[1], h.value,
                                                   outcomes[1]),
                                         ids[2], v.value, outcomes[2]),
                       !.last_position_horizontal = h,
                       !.last_position_vertical = v,
                       !.call.ret = Append(w.call.ret, <<h.value, v.value>>),
                       !.call.writes = Append(w.call.writes, outcomes)]
        ELSE [w EXCEPT !.call.ret = Append(w.call.ret, <<>>),
                       !.call.writes = Append(w.call.writes, <<>>)]

\* the loop of transition_to_buffered over the mirrors of the shot file:
\* table[j] is <<mirror_name, positions[0], positions[1]>>
RECURSIVE ProgramFrom(_, _, _, _, _)
ProgramFrom(w, table, j, fresh, outcomes) ==
    IF j > Len(table)
    THEN w
    ELSE ProgramFrom(set_position(w, table[j][1], table[j][2], table[j][3],
                                  fresh, outcomes[j]),
                     table, j + 1, fresh, outcomes)

transition_to_buffered(w, table, fresh, outcomes) ==
    ProgramFrom(w, table, 1, fresh, outcomes)

\* the call record at the start of a call
WorkerCall(op, table, fresh) ==
    [op |-> op, fresh |-> fresh, table |-> table, ret |-> <<>>, writes |-> <<>>]

\* -np.inf: the least integer, below every mean and every metric that the
\* ScopeData of the check can produce
NegInf == -2147483647

\* the frame before main() has run. Positions handed to set_motor_positions
\* (tv, x, best_pos) are numerators over FRAC; means are numerators over 3
\* and metrics numerators over 3 * OSCILLOSCOPE_SCALING_FACTOR. Of the
\* Optimizer the frame holds the number of opt.ask() calls (asks) and the
\* arguments of its opt.tell() calls in order (told).
NoFrame ==
    [pc |-> "main", ctx |-> "none", tv |-> <<>>,
     position_threshold |-> 0,
     manual_search_iterations |-> 0, optimization_iterations |-> 0,
     i |-> 0, axis |-> 0, pos |-> 0,
     low_position |-> <<>>, high_position |-> <<>>,
     manual_best_pos |-> <<>>, manual_best_y |-> NegInf,
     x |-> <<>>, t |-> 0, best_pos |-> <<>>, best_y |-> NegInf,
     mean |-> NegInf, scan_exit |-> "none", opt_exit |-> "none",
     asks |-> 0, told |-> <<>>]

NoEval == [point |-> <<>>, in_range |-> TRUE, log |-> <<>>, data |-> <<>>]

InitMainVars ==
    /\ oscilloscope = [is_connected |-> FALSE]
    /\ fr = NoFrame
    /\ ev = NoEval
    /\ codec = NoCodec
    /\ worker = NoWorker

-----------------------------------------------------------------------------
(* The MotorController driven call by call: SpecMotor *)

\* where the servos may stand when the program starts
StartPresent ==
    { HOME,
      <<MIN_POSITION, MIN_POSITION + 1, MAX_POSITION, 2000>> }

\* arguments a client passes to set_goal_positions
GoalInputs ==
    { HOME,
      <<MIN_POSITION, MIN_POSITION, MAX_POSITION, MAX_POSITION>>,
      <<-1, 70000, 0, 4095>> }

\* calls written with fewer or more than four positions
GoalMiscounts ==
    { <<>>, <<1500, 2800, 2000>>, <<1500, 2800, 2000, 1800, 1800>> }

\* MotorController.__init__, the servos at rest wherever they stand
InitController ==
    /\ is_connected = FALSE
    /\ port_open = FALSE
    /\ syncWriteParams = <<>>
    /\ syncReadParams = <<>>
    /\ present \in StartPresent
    /\ goal = present
    /\ call = NoCall
    /\ wfp = NoWait

InitMotor == InitController /\ InitMainVars

MConnect ==
    /\ ~is_connected
    /\ \E fault \in ConnectFaults :
         LET r == connect(fault) IN
         /\ is_connected' = r.connected
         /\ port_open' = r.port
         /\ syncReadParams' = r.readParams
         /\ syncWriteParams' = <<>>
         /\ call' = [NoCall EXCEPT !.op = "connect", !.ret = r.ret,
                                   !.was_conn = is_connected,
                                   !.opened = r.opened, !.closed = r.closed]
    /\ UNCHANGED <<goal, present, wfp>>
    /\ UNCHANGED mainVars

MDisconnect ==
    /\ \E outcomes \in [Servos -> WriteOutcomes] :
         LET r == disconnect(is_connected, port_open, syncReadParams, outcomes) IN
         /\ is_connected' = r.connected
         /\ port_open' = r.port
         /\ syncReadParams' = r.readParams
         /\ call' = [NoCall EXCEPT !.op = "disconnect", !.raised = r.raised,
                                   !.torque = r.torque,
                                   !.was_conn = is_connected]
    /\ UNCHANGED <<syncWriteParams, goal, present, wfp>>
    /\ UNCHANGED mainVars

MSetGoal ==
    /\ \E p \in GoalInputs \cup GoalMiscounts, stageFail \in 0..4, txFail \in BOOLEAN :
         LET r == Call_set_goal_positions(is_connected, syncWriteParams, p,
                                          stageFail, txFail) IN
         /\ syncWriteParams' = r.params
         /\ goal' = IF r.delivered THEN GoalAfter(goal, r.sent) ELSE goal
         /\ call' = [NoCall EXCEPT !.op = "set_goal_positions",
                                   !.raised = r.raised, !.staged = r.staged,
                                   !.tx = r.tx, !.sent = r.sent,
                                   !.was_conn = is_connected, !.args = p,
                                   !.found = syncWriteParams]
    /\ UNCHANGED <<is_connected, port_open, syncReadParams, present, wfp>>
    /\ UNCHANGED mainVars

MRead ==
    /\ \E readFail \in 0..5, hi \in SpeedWords :
         LET r == read_positions(is_connected, present, readFail) IN
         call' = [NoCall EXCEPT !.op = "read_positions", !.raised = r.raised,
                                !.reads = r.reads, !.sent = r.position,
                                !.ret = ReadResult(r, hi),
                                !.was_conn = is_connected]
    /\ UNCHANGED <<is_connected, port_open, syncWriteParams, syncReadParams,
                   goal, present, wfp>>
    /\ UNCHANGED mainVars

\* the servos move to where the last delivered grouped write sent them
MMove ==
    /\ present # goal
    /\ present' = goal
    /\ UNCHANGED <<is_connected, port_open, syncWriteParams, syncReadParams,
                   goal, call, wfp>>
    /\ UNCHANGED mainVars

NextMotor == MConnect \/ MDisconnect \/ MSetGoal \/ MRead \/ MMove

SpecMotor == InitMotor /\ [][NextMotor]_vars

-----------------------------------------------------------------------------
(* wait_for_positions poll by poll: SpecWait *)

Thresholds == {1, 2, 20}

\* where a grouped read may find the servos: at the goals, or one servo off
\* by the threshold or by one more, on either side
WaitMoves(goals, threshold) ==
    {goals} \cup
    { [goals EXCEPT ![k] = goals[k] + d] :
        k \in Servos,
        d \in {threshold, threshold + 1, -threshold, -(threshold + 1)} }

InitWait ==
    /\ is_connected \in BOOLEAN
    /\ port_open = is_connected
    /\ syncWriteParams = <<>>
    /\ syncReadParams = IF is_connected THEN [j \in 1..4 |-> j] ELSE <<>>
    /\ present \in StartPresent
    /\ goal = present
    /\ call = NoCall
    /\ wfp = NoWait
    /\ InitMainVars

\* a call of wait_for_positions: timeout None, 0 or TestTimeout
WBegin ==
    /\ ~wfp.active
    /\ \E threshold \in Thresholds, has_timeout \in BOOLEAN,
          timeout \in {0, TestTimeout} :
         /\ ~has_timeout => timeout = 0
         /\ wfp' = wait_begin(HOME, threshold, has_timeout, timeout)
    /\ call' = [NoCall EXCEPT !.op = "wait_for_positions",
                              !.was_conn = is_connected]
    /\ UNCHANGED <<is_connected, port_open, syncWriteParams, syncReadParams,
                   goal, present>>
    /\ UNCHANGED mainVars

WPoll ==
    /\ wfp.active
    /\ \E pos \in WaitMoves(wfp.goals, wfp.threshold), readFail \in {0, 3, 5},
          latency \in 0..MaxReadLatency :
         /\ present' = pos
         /\ wfp' = wait_poll(wfp, is_connected, pos, readFail, latency)
         /\ call' = [call EXCEPT
                       !.raised = read_positions(is_connected, pos, readFail).raised,
                       !.reads = Min(call.reads
                                     + read_positions(is_connected, pos, readFail).reads,
                                     MaxPolls)]
    /\ UNCHANGED <<is_connected, port_open, syncWriteParams, syncReadParams, goal>>
    /\ UNCHANGED mainVars

NextWait == WBegin \/ WPoll

SpecWait == InitWait /\ [][NextWait]_vars

\* the loop is entered again as long as it can be
FairWait == SpecWait /\ WF_vars(WPoll)

-----------------------------------------------------------------------------
(* encoder and decoder called on arguments around their comparisons:
   SpecCodec *)

\* the values within CodecSpan of one of the points
Around(points) ==
    UNION { (q - CodecSpan)..(q + CodecSpan) : q \in points }

\* logical positions given to encoder
LogicalInputs == Around({-32767, -32000, 0, 32000, 32767})

\* wire words given to decoder
WireInputs == Around({0, 32000, 32767, 64767, 65534})

InitCodec == InitController /\ InitMainVars

CEncode ==
    /\ \E x \in LogicalInputs :
         codec' = [op |-> "encoder", arg |-> x, ret |-> encoder(x)]
    /\ UNCHANGED <<mcVars, oscilloscope, fr, ev, worker>>

CDecode ==
    /\ \E w \in WireInputs :
         codec' = [op |-> "decoder", arg |-> w, ret |-> decoder(w)]
    /\ UNCHANGED <<mcVars, oscilloscope, fr, ev, worker>>

\* decoder(encoder(x)): decoder is given what the last encoder call returned
CRoundTrip ==
    /\ codec.op = "encoder"
    /\ ~codec.ret.none
    /\ codec' = [op |-> "decoder(encoder)", arg |-> codec.arg,
                 ret |-> decoder(codec.ret.value)]
    /\ UNCHANGED <<mcVars, oscilloscope, fr, ev, worker>>

\* encoder(decoder(w)): encoder is given what the last decoder call returned
CWireRoundTrip ==
    /\ codec.op = "decoder"
    /\ ~codec.ret.none
    /\ codec' = [op |-> "encoder(decoder)", arg |-> codec.arg,
                 ret |-> encoder(codec.ret.value)]
    /\ UNCHANGED <<mcVars, oscilloscope, fr, ev, worker>>

\* logical positions given to the encoder of test_encoder_decoder.py
TestInputs == Around({-32768, 0, 32767})

\* test_encoder_decoder(): y = encoder(i)
TEncode ==
    /\ \E x \in TestInputs :
         codec' = [op |-> "test_encoder", arg |-> x, ret |-> test_encoder(x)]
    /\ UNCHANGED <<mcVars, oscilloscope, fr, ev, worker>>

\* test_encoder_decoder(): z = decoder(y)
TRoundTrip ==
    /\ codec.op = "test_encoder"
    /\ ~codec.ret.none
    /\ codec' = [op |-> "test_decoder(test_encoder)", arg |-> codec.arg,
                 ret |-> test_decoder(codec.ret.value)]
    /\ UNCHANGED <<mcVars, oscilloscope, fr, ev, worker>>

NextCodec ==
    \/ CEncode \/ CDecode \/ CRoundTrip \/ CWireRoundTrip
    \/ TEncode \/ TRoundTrip

SpecCodec == InitCodec /\ [][NextCodec]_vars

-----------------------------------------------------------------------------
(* main.py: set_motor_positions, get_mean_oscilloscope_value, optimization *)

OSCILLOSCOPE_SCALING_OFFSET == 8000000

\* half-width of the surrogate's search window
OPT_MARGIN == 5

\* the threshold optimization() gives the surrogate's evaluations
OPT_THRESHOLD == 1

\* position_threshold_space[0]
POSITION_THRESHOLD == 2

\* min_samples of get_mean_oscilloscope_value
MIN_SAMPLES == 3

\* an integer position vector as arguments of set_motor_positions
ToReal(v) == [k \in 1..Len(v) |-> v[k] * FRAC]

\* a window that does not narrow from one outer iteration to the next
ScanMargin_Fixed(i) == ScanMargin0

\* int(500 / (1.8**i)), with ScanMargin0 for 500
ScanMargin(i) == (ScanMargin0 * 10^i) \div 18^i

\* max(1, 10//(i+1)), with ScanStep0 for 10
ScanStep(i) == Max(1, ScanStep0 \div (i + 1))

\* the bounds test of set_motor_positions: no position below MIN_POSITION
\* or above MAX_POSITION
InRange(v) ==
    \A k \in Servos :
        ~(v[k] < MIN_POSITION * FRAC \/ v[k] > MAX_POSITION * FRAC)

\* int(np.clip(pos, MIN_POSITION, MAX_POSITION)) of each argument
Clipped(v) ==
    [k \in Servos |->
        Min(Max(v[k], MIN_POSITION * FRAC), MAX_POSITION * FRAC) \div FRAC]

\* a comparison that takes every sample
Improves_Always(y, best) == TRUE

\* a comparison that takes a sample equal to the best
Improves_OrEqual(y, best) == y >= best

\* mean > manual_best_y, y > best_y
Improves(y, best) == y > best

\* a mean of the three oldest points of the buffer
MeanOfFirst(data) == data[1] + data[2] + data[3]

\* np.mean(data[1][-3:]) as a numerator over MIN_SAMPLES
MeanOfLast(data) ==
    data[Len(data) - 2] + data[Len(data) - 1] + data[Len(data)]

\* the threshold of the call of set_motor_positions that is running
ThresholdOf(f) ==
    IF f.ctx \in {"opt", "final"} THEN OPT_THRESHOLD ELSE f.position_threshold

\* the scan's try statement is left, by its last iteration or by a handler:
\* of the scan's locals the best pair is all that is kept
LeaveScan(f, kind) ==
    [f EXCEPT !.pc = "opt_seed", !.ctx = "none", !.scan_exit = kind,
              !.tv = <<>>, !.i = 0, !.axis = 0, !.pos = 0, !.mean = NegInf,
              !.low_position = <<>>, !.high_position = <<>>]

\* an exception or a KeyboardInterrupt reaches the try block around it: the
\* scan's handlers print and fall through to the surrogate phase; the
\* surrogate's handlers print and optimization() returns None, which main()
\* cannot unpack; outside both nothing catches it. Of the frame the process
\* dies with, the best pair is kept
Raised(f, kind) ==
    CASE f.ctx \in {"scan", "commit"} ->
           LeaveScan(f, kind)
      [] f.ctx \in {"opt", "final"} ->
           [NoFrame EXCEPT !.pc = "crashed", !.opt_exit = kind,
                           !.scan_exit = f.scan_exit,
                           !.position_threshold = f.position_threshold,
                           !.manual_search_iterations = f.manual_search_iterations,
                           !.optimization_iterations = f.optimization_iterations,
                           !.best_pos = f.best_pos, !.best_y = f.best_y]
      [] OTHER ->
           [f EXCEPT !.pc = "crashed", !.ctx = "none"]

\* the scan goes on with trial value q of servo a: the next trial of that
\* servo, the first trial of the next servo, or the closing
\* set_motor_positions(manual_best_pos) of the outer iteration
RECURSIVE Advance(_, _, _)
Advance(f, a, q) ==
    IF a > 4
    THEN [f EXCEPT !.pc = "smp_set", !.ctx = "commit",
                   !.tv = ToReal(f.manual_best_pos)]
    ELSE IF q < f.high_position[a]
    THEN [f EXCEPT !.pc = "smp_set", !.ctx = "scan", !.axis = a, !.pos = q,
                   !.tv = ToReal([f.manual_best_pos EXCEPT ![a] = q])]
    ELSE Advance(f, a + 1, IF a < 4 THEN f.low_position[a + 1] ELSE 0)

\* the head of an outer iteration after read_positions returned p
StartScan(f, p) ==
    LET m == ScanMargin(f.i)
        g == [f EXCEPT !.manual_best_pos = p,
                       !.low_position = [k \in Servos |-> p[k] - m],
                       !.high_position = [k \in Servos |-> p[k] + m]]
    IN  Advance(g, 1, g.low_position[1])

\* set_motor_positions returned
AfterSet(f) ==
    CASE f.ctx = "init" ->
           [f EXCEPT !.pc = "scan_head", !.ctx = "scan", !.i = 0,
                     !.manual_best_pos = <<>>, !.manual_best_y = NegInf]
      [] f.ctx \in {"scan", "opt"} ->
           [f EXCEPT !.pc = "gm_poll"]
      [] f.ctx = "commit" ->
           [f EXCEPT !.pc = "scan_head", !.ctx = "scan", !.i = f.i + 1]
      [] OTHER ->
           [f EXCEPT !.pc = "main_end", !.ctx = "none", !.opt_exit = "completed"]

\* a loop that tells the surrogate the metric, not its negation
AfterSample_TellsMetric(f, m) ==
    IF f.ctx = "scan"
    THEN LET better == Improves(m, f.manual_best_y)
             g == [f EXCEPT
                     !.mean = m,
                     !.manual_best_y = IF better THEN m ELSE @,
                     !.manual_best_pos = IF better THEN [@ EXCEPT ![f.axis] = f.pos]
                                         ELSE @]
         IN  Advance(g, f.axis, f.pos + ScanStep(f.i))
    ELSE LET y == m - MIN_SAMPLES * OSCILLOSCOPE_SCALING_OFFSET
             better == Improves(y, f.best_y)
         IN  [f EXCEPT !.mean = m, !.pc = "opt_ask", !.t = f.t + 1,
                       !.told = Append(@, [x |-> f.x, v |-> y]),
                       !.best_y = IF better THEN y ELSE @,
                       !.best_pos = IF better THEN f.x ELSE @]

\* get_mean_oscilloscope_value returned m: the scan compares and goes on; the
\* surrogate loop gets y from blackbox, calls opt.tell(x, -y) and compares
AfterSample(f, m) ==
    IF f.ctx = "scan"
    THEN LET better == Improves(m, f.manual_best_y)
             g == [f EXCEPT
                     !.mean = m,
                     !.manual_best_y = IF better THEN m ELSE @,
                     !.manual_best_pos = IF better THEN [@ EXCEPT ![f.axis] = f.pos]
                                         ELSE @]
         IN  Advance(g, f.axis, f.pos + ScanStep(f.i))
    ELSE LET y == m - MIN_SAMPLES * OSCILLOSCOPE_SCALING_OFFSET
             better == Improves(y, f.best_y)
         IN  [f EXCEPT !.mean = m, !.pc = "opt_ask", !.t = f.t + 1,
                       !.told = Append(@, [x |-> f.x, v |-> -y]),
                       !.best_y = IF better THEN y ELSE @,
                       !.best_pos = IF better THEN f.x ELSE @]

\* a surrogate phase whose best value starts at 0
StartOpt_ZeroBest(f, p) ==
    [f EXCEPT !.pc = "opt_ask", !.ctx = "opt", !.t = 0,
              !.low_position = [k \in Servos |-> p[k] - OPT_MARGIN],
              !.high_position = [k \in Servos |-> p[k] + OPT_MARGIN],
              !.best_pos = <<>>, !.best_y = 0,
              !.asks = 0, !.told = <<>>,
              !.manual_best_pos = <<>>, !.manual_best_y = NegInf]

\* the surrogate phase begins after read_positions returned p; the scan's
\* best pair, which no later statement reads, is dropped from the frame
StartOpt(f, p) ==
    [f EXCEPT !.pc = "opt_ask", !.ctx = "opt", !.t = 0,
              !.low_position = [k \in Servos |-> p[k] - OPT_MARGIN],
              !.high_position = [k \in Servos |-> p[k] + OPT_MARGIN],
              !.best_pos = <<>>, !.best_y = NegInf,
              !.asks = 0, !.told = <<>>,
              !.manual_best_pos = <<>>, !.manual_best_y = NegInf]

\* points opt.ask() may propose: the window's low corner and a point inside
\* it that is no integer
AskPoints(f) ==
    { [k \in Servos |-> f.low_position[k] * FRAC],
      [k \in Servos |-> (f.low_position[k] + OPT_MARGIN) * FRAC + 1] }

-----------------------------------------------------------------------------
(* main() step by step: Spec *)

\* what a grouped read may find: the servos where they were, or arrived
ServoMoves == {present, goal}

\* buffers the instrument may return
ScopeData ==
    { <<3, 3>>, <<0, 0, 0>>, <<9, 0, 3, 3>> }

CallOf(op, r, tx, sent, reads) ==
    [NoCall EXCEPT !.op = op, !.raised = r, !.tx = tx, !.sent = sent,
                   !.reads = reads, !.was_conn = is_connected]

Init ==
    /\ InitController
    /\ oscilloscope = [is_connected |-> FALSE]
    /\ ev = NoEval
    /\ codec = NoCodec
    /\ worker = NoWorker
    /\ \E m \in 0..MaxManualIters, n \in 0..MaxOptIters :
         fr = [NoFrame EXCEPT !.manual_search_iterations = m,
                              !.optimization_iterations = n,
                              !.position_threshold = POSITION_THRESHOLD]

\* oscilloscope.connect() and oscilloscope.configure(...)
MainScope ==
    /\ UNCHANGED <<codec, worker>>
    /\ fr.pc = "main"
    /\ \E outcome \in {"ok", "no_device", "configure_raises"} :
         /\ oscilloscope' = [is_connected |-> outcome # "no_device"]
         /\ fr' = [fr EXCEPT !.pc = CASE outcome = "ok" -> "main_motor"
                                      [] outcome = "no_device" -> "exit"
                                      [] OTHER -> "crashed"]
    /\ UNCHANGED <<mcVars, ev>>

\* a main() that leaves the instrument connected when the actuator's
\* connect fails
MainMotor_KeepsScope ==
    /\ UNCHANGED <<codec, worker, oscilloscope>>
    /\ fr.pc = "main_motor"
    /\ \E fault \in ConnectFaults, configured \in BOOLEAN :
         LET r == connect(fault) IN
         /\ is_connected' = r.connected
         /\ port_open' = r.port
         /\ syncReadParams' = r.readParams
         /\ syncWriteParams' = <<>>
         /\ call' = [NoCall EXCEPT !.op = "connect", !.ret = r.ret]
         /\ fr' = IF ~r.ret THEN [fr EXCEPT !.pc = "exit"]
                  ELSE IF ~configured THEN [fr EXCEPT !.pc = "crashed"]
                  ELSE [fr EXCEPT !.pc = "smp_set", !.ctx = "init",
                                  !.tv = ToReal(HOME)]
    /\ UNCHANGED <<goal, present, wfp, ev>>

\* motor_controller.connect() and configure_servos(acc=0, speed=0)
MainMotor ==
    /\ UNCHANGED <<codec, worker>>
    /\ fr.pc = "main_motor"
    /\ \E fault \in ConnectFaults, configured \in BOOLEAN :
         LET r == connect(fault) IN
         /\ is_connected' = r.connected
         /\ port_open' = r.port
         /\ syncReadParams' = r.readParams
         /\ syncWriteParams' = <<>>
         /\ call' = [NoCall EXCEPT !.op = "connect", !.ret = r.ret]
         /\ oscilloscope' = IF r.ret THEN oscilloscope
                            ELSE [is_connected |-> FALSE]
         /\ fr' = IF ~r.ret THEN [fr EXCEPT !.pc = "exit"]
                  ELSE IF ~configured THEN [fr EXCEPT !.pc = "crashed"]
                  ELSE [fr EXCEPT !.pc = "smp_set", !.ctx = "init",
                                  !.tv = ToReal(HOME)]
    /\ UNCHANGED <<goal, present, wfp, ev>>

\* a set_motor_positions without the bounds test and without the clip
SetMotorPositions_Unchecked ==
    /\ UNCHANGED <<codec, worker>>
    /\ fr.pc = "smp_set"
    /\ \E stageFail \in {0, 3}, txFail \in BOOLEAN :
         LET p == [k \in Servos |-> fr.tv[k] \div FRAC]
             r == set_goal_positions(is_connected, syncWriteParams, p,
                                     stageFail, txFail)
         IN  /\ syncWriteParams' = r.params
             /\ goal' = IF r.delivered THEN GoalAfter(goal, r.sent) ELSE goal
             /\ call' = [CallOf("set_goal_positions", r.raised, r.tx, r.sent, 0)
                           EXCEPT !.staged = r.staged]
             /\ ev' = [point |-> fr.tv, in_range |-> TRUE, log |-> <<"set">>,
                         data |-> <<>>]
             /\ IF r.raised
                THEN /\ fr' = Raised(fr, "exception")
                     /\ wfp' = wfp
                ELSE /\ fr' = [fr EXCEPT !.pc = "smp_wait"]
                     /\ wfp' = wait_begin(p, ThresholdOf(fr), TRUE, SetTimeout)
             /\ UNCHANGED <<is_connected, port_open, syncReadParams, present>>
    /\ UNCHANGED oscilloscope

\* set_motor_positions up to the call of wait_for_positions
SetMotorPositions ==
    /\ UNCHANGED <<codec, worker>>
    /\ fr.pc = "smp_set"
    /\ IF ~InRange(fr.tv)
       THEN /\ ev' = [point |-> fr.tv, in_range |-> FALSE, log |-> <<>>,
                        data |-> <<>>]
            /\ fr' = AfterSet(fr)
            /\ UNCHANGED mcVars
       ELSE \E stageFail \in {0, 3}, txFail \in BOOLEAN :
              LET r == set_goal_positions(is_connected, syncWriteParams,
                                          Clipped(fr.tv), stageFail, txFail)
              IN  /\ syncWriteParams' = r.params
                  /\ goal' = IF r.delivered THEN GoalAfter(goal, r.sent) ELSE goal
                  /\ call' = [CallOf("set_goal_positions", r.raised, r.tx, r.sent, 0)
                                EXCEPT !.staged = r.staged]
                  /\ ev' = [point |-> fr.tv, in_range |-> TRUE, log |-> <<"set">>,
                              data |-> <<>>]
                  /\ IF r.raised
                     THEN /\ fr' = Raised(fr, "exception")
                          /\ wfp' = wfp
                     ELSE /\ fr' = [fr EXCEPT !.pc = "smp_wait"]
                          /\ wfp' = wait_begin(Clipped(fr.tv), ThresholdOf(fr),
                                               TRUE, SetTimeout)
                  /\ UNCHANGED <<is_connected, port_open, syncReadParams, present>>
    /\ UNCHANGED oscilloscope

\* a set_motor_positions that raises when its wait returns False
WaitPoll_FalseAborts ==
    /\ UNCHANGED <<codec, worker>>
    /\ fr.pc = "smp_wait"
    /\ \E pos \in ServoMoves, readFail \in {0, 5}, latency \in 0..MaxReadLatency :
         LET w == wait_poll(wfp, is_connected, pos, readFail, latency) IN
         /\ present' = pos
         /\ wfp' = IF w.active THEN w ELSE [NoWait EXCEPT !.result = w.result]
         /\ call' = CallOf("wait_for_positions", w.result = "raised", 0, <<>>, 1)
         /\ ev' = [ev EXCEPT !.log = IF w.polls = 1 THEN Append(@, "wait") ELSE @]
         /\ fr' = CASE w.result \in {"raised", "false"} -> Raised(fr, "exception")
                    [] w.result = "none" -> fr
                    [] OTHER -> AfterSet(fr)
    /\ UNCHANGED <<is_connected, port_open, syncWriteParams, syncReadParams,
                   goal, oscilloscope>>

\* one turn of the loop of the wait_for_positions that set_motor_positions
\* called; its boolean result is dropped, and so is the frame when it returns
WaitPoll ==
    /\ UNCHANGED <<codec, worker>>
    /\ fr.pc = "smp_wait"
    /\ \E pos \in ServoMoves, readFail \in {0, 5}, latency \in 0..MaxReadLatency :
         LET w == wait_poll(wfp, is_connected, pos, readFail, latency) IN
         /\ present' = pos
         /\ wfp' = IF w.active THEN w ELSE [NoWait EXCEPT !.result = w.result]
         /\ call' = CallOf("wait_for_positions", w.result = "raised", 0, <<>>, 1)
         /\ ev' = [ev EXCEPT !.log = IF w.polls = 1 THEN Append(@, "wait") ELSE @]
         /\ fr' = CASE w.result = "raised" -> Raised(fr, "exception")
                    [] w.result = "none" -> fr
                    [] OTHER -> AfterSet(fr)
    /\ UNCHANGED <<is_connected, port_open, syncWriteParams, syncReadParams,
                   goal, oscilloscope>>

\* get_mean_oscilloscope_value: the settle sleep before the first read, then
\* one read_values per turn until a read holds MIN_SAMPLES points
GetMean ==
    /\ UNCHANGED <<codec, worker>>
    /\ fr.pc = "gm_poll"
    /\ \E data \in ScopeData, failed \in BOOLEAN :
         /\ ev' = [ev EXCEPT !.log =
                     IF Len(@) > 0 /\ @[Len(@)] = "read" THEN @
                     ELSE @ \o <<"settle", "read">>,
                              !.data =
                     IF failed \/ ~oscilloscope.is_connected THEN <<>>
                     ELSE data]
         /\ fr' = IF failed \/ ~oscilloscope.is_connected
                  THEN Raised(fr, "exception")
                  ELSE IF Len(data) >= MIN_SAMPLES
                  THEN AfterSample(fr, MeanOfLast(data))
                  ELSE fr
    /\ UNCHANGED <<mcVars, oscilloscope>>

\* the head of the scan's for loop: read_positions and the four windows
ScanHead ==
    /\ UNCHANGED <<codec, worker>>
    /\ fr.pc = "scan_head"
    /\ IF fr.i >= fr.manual_search_iterations
       THEN /\ fr' = LeaveScan(fr, "completed")
            /\ UNCHANGED mcVars
       ELSE \E pos \in ServoMoves, readFail \in {0, 5} :
              LET r == read_positions(is_connected, pos, readFail) IN
              /\ present' = pos
              /\ call' = CallOf("read_positions", r.raised, 0, <<>>, r.reads)
              /\ fr' = IF r.raised THEN Raised(fr, "exception")
                       ELSE StartScan(fr, r.position)
              /\ UNCHANGED <<is_connected, port_open, syncWriteParams,
                             syncReadParams, goal, wfp>>
    /\ UNCHANGED <<oscilloscope, ev>>

\* between the phases: read_positions, the search space, the Optimizer
OptSeed ==
    /\ UNCHANGED <<codec, worker>>
    /\ fr.pc = "opt_seed"
    /\ \E pos \in ServoMoves, readFail \in {0, 5} :
         LET r == read_positions(is_connected, pos, readFail) IN
         /\ present' = pos
         /\ call' = CallOf("read_positions", r.raised, 0, <<>>, r.reads)
         /\ fr' = IF r.raised THEN Raised(fr, "exception")
                  ELSE StartOpt(fr, r.position)
    /\ UNCHANGED <<is_connected, port_open, syncWriteParams, syncReadParams,
                   goal, wfp, oscilloscope, ev>>

\* the head of the surrogate's for loop: opt.ask(), or after the last turn
\* the report and set_motor_positions(best_pos)
OptAsk ==
    /\ UNCHANGED <<codec, worker>>
    /\ fr.pc = "opt_ask"
    /\ IF fr.t < fr.optimization_iterations
       THEN \E x \in AskPoints(fr) :
              fr' = [fr EXCEPT !.pc = "smp_set", !.x = x, !.tv = x,
                               !.asks = @ + 1]
       ELSE fr' = IF fr.best_pos = <<>>
                  THEN Raised(fr, "exception")
                  ELSE [fr EXCEPT !.pc = "smp_set", !.ctx = "final",
                                  !.tv = fr.best_pos]
    /\ UNCHANGED <<mcVars, oscilloscope, ev>>

\* Ctrl-C while optimization() runs
Interrupt ==
    /\ UNCHANGED <<codec, worker>>
    /\ fr.pc \in {"scan_head", "smp_set", "smp_wait", "gm_poll", "opt_seed", "opt_ask"}
    /\ fr.ctx # "init"
    /\ fr' = Raised(fr, "interrupt")
    /\ wfp' = IF wfp.active THEN NoWait ELSE wfp
    /\ UNCHANGED <<is_connected, port_open, syncWriteParams, syncReadParams,
                   goal, present, call, oscilloscope, ev>>

\* optimization() returned its pair: the devices are released
MainEnd ==
    /\ UNCHANGED <<codec, worker>>
    /\ fr.pc = "main_end"
    /\ \E failing \in {0, 2} :
         LET outcomes == [k \in Servos |-> IF k = failing THEN "comm" ELSE "ok"]
             r == disconnect(is_connected, port_open, syncReadParams, outcomes)
         IN
         /\ is_connected' = r.connected
         /\ port_open' = r.port
         /\ syncReadParams' = r.readParams
         /\ call' = [NoCall EXCEPT !.op = "disconnect", !.torque = r.torque,
                                   !.was_conn = is_connected]
    /\ oscilloscope' = [is_connected |-> FALSE]
    /\ fr' = [fr EXCEPT !.pc = "exit"]
    /\ UNCHANGED <<syncWriteParams, goal, present, wfp, ev>>

Next ==
    \/ MainScope
    \/ MainMotor
    \/ SetMotorPositions
    \/ WaitPoll
    \/ GetMean
    \/ ScanHead
    \/ OptSeed
    \/ OptAsk
    \/ Interrupt
    \/ MainEnd

Spec == Init /\ [][Next]_vars

-----------------------------------------------------------------------------
(* The coordinate scan against a noiseless instrument and an actuator that
   reaches every goal: SpecConverge *)

\* how far from where the servos start the signal's optimum may lie
OptimumOffsets ==
    { <<0, 0, 0, 0>>, <<-4, -4, -4, -4>>, <<4, 4, 4, 4>>,
      <<-3, 2, 0, 1>>, <<1, -1, 3, -2>>, <<-2, -2, 2, 2>> }

\* optima inside the bounds
Optima(p) ==
    { [k \in Servos |-> Clip(p[k] + d[k], MIN_POSITION, MAX_POSITION)] :
        d \in OptimumOffsets }

\* the squared distance of the position p from the optimum t
SquaredDistance(p, t) ==
    (p[1] - t[1]) * (p[1] - t[1]) + (p[2] - t[2]) * (p[2] - t[2])
    + (p[3] - t[3]) * (p[3] - t[3]) + (p[4] - t[4]) * (p[4] - t[4])

\* the buffer read_values returns while the servos stand at p: every point
\* is -(sum of (p[k] - t[k])^2)
SignalAt(p, t) ==
    LET s == 0 - SquaredDistance(p, t) IN <<s, s, s>>

\* optimization() is entered with both devices connected
InitConverge ==
    /\ is_connected = TRUE
    /\ port_open = TRUE
    /\ syncWriteParams = <<>>
    /\ syncReadParams = <<1, 2, 3, 4>>
    /\ present \in StartPresent
    /\ goal = present
    /\ call = NoCall
    /\ wfp = NoWait
    /\ \E t \in Optima(present) :
         oscilloscope = [is_connected |-> TRUE, optimum |-> t]
    /\ fr = [NoFrame EXCEPT !.pc = "scan_head", !.ctx = "scan",
                            !.manual_search_iterations = ConvIters,
                            !.position_threshold = POSITION_THRESHOLD]
    /\ ev = NoEval
    /\ codec = NoCodec
    /\ worker = NoWorker

\* the head of the scan's for loop, the grouped read succeeding
CvHead ==
    /\ fr.pc = "scan_head"
    /\ fr.ctx = "scan"
    /\ fr' = IF fr.i >= fr.manual_search_iterations
             THEN LeaveScan(fr, "completed")
             ELSE StartScan(fr, read_positions(is_connected, present, 0).position)
    /\ UNCHANGED <<mcVars, oscilloscope, ev, codec, worker>>

\* set_motor_positions with every write delivered and the servos arriving
\* before the wait times out
CvSet(v) ==
    IF ~InRange(v)
    THEN UNCHANGED <<goal, present>>
    ELSE LET r == set_goal_positions(is_connected, syncWriteParams, Clipped(v), 0, FALSE)
         IN  /\ goal' = GoalAfter(goal, r.sent)
             /\ present' = goal'

\* one trial of the scan: set_motor_positions, get_mean_oscilloscope_value,
\* the comparison
CvTrial ==
    /\ fr.pc = "smp_set"
    /\ fr.ctx = "scan"
    /\ CvSet(fr.tv)
    /\ fr' = AfterSample(AfterSet(fr),
                         MeanOfLast(SignalAt(present', oscilloscope.optimum)))
    /\ UNCHANGED <<is_connected, port_open, syncWriteParams, syncReadParams,
                   call, wfp, oscilloscope, ev, codec, worker>>

\* the closing set_motor_positions(manual_best_pos) of an outer iteration
CvCommit ==
    /\ fr.pc = "smp_set"
    /\ fr.ctx = "commit"
    /\ CvSet(fr.tv)
    /\ fr' = AfterSet(fr)
    /\ UNCHANGED <<is_connected, port_open, syncWriteParams, syncReadParams,
                   call, wfp, oscilloscope, ev, codec, worker>>

NextConverge == CvHead \/ CvTrial \/ CvCommit

SpecConverge == InitConverge /\ [][NextConverge]_vars

-----------------------------------------------------------------------------
(* The scan's windows and trial values with the margin and the step of the
   source: SpecSchedule *)

\* the 500 of int(500 / (1.8**i))
MANUAL_MARGIN == 500

\* the 10 of max(1, 10//(i+1))
MANUAL_STEP == 10

\* a half-width rounded to the nearest integer
AnnealedMargin_Rounded(m0, i) == (2 * m0 * 10^i + 18^i) \div (2 * 18^i)

\* int(m0 / (1.8**i))
AnnealedMargin(m0, i) == (m0 * 10^i) \div 18^i

\* max(1, s0//(i+1))
AnnealedStep(s0, i) == Max(1, s0 \div (i + 1))

\* optimization() is entered with both devices connected
InitSchedule ==
    /\ is_connected = TRUE
    /\ port_open = TRUE
    /\ syncWriteParams = <<>>
    /\ syncReadParams = <<1, 2, 3, 4>>
    /\ present \in StartPresent
    /\ goal = present
    /\ call = NoCall
    /\ wfp = NoWait
    /\ oscilloscope = [is_connected |-> TRUE]
    /\ fr = [NoFrame EXCEPT !.pc = "scan_head", !.ctx = "scan",
                            !.manual_search_iterations = SchedIters,
                            !.position_threshold = POSITION_THRESHOLD]
    /\ ev = NoEval
    /\ codec = NoCodec
    /\ worker = NoWorker

\* the head of the scan's for loop: the positions read, the four windows
SchHead ==
    /\ fr.pc = "scan_head"
    /\ fr.ctx = "scan"
    /\ fr' = IF fr.i >= fr.manual_search_iterations
             THEN LeaveScan(fr, "completed")
             ELSE LET p == read_positions(is_connected, present, 0).position
                      m == AnnealedMargin(MANUAL_MARGIN, fr.i)
                      g == [fr EXCEPT !.manual_best_pos = p,
                                      !.low_position = [k \in Servos |-> p[k] - m],
                                      !.high_position = [k \in Servos |-> p[k] + m]]
                  IN  Advance(g, 1, g.low_position[1])
    /\ UNCHANGED <<mcVars, oscilloscope, ev, codec, worker>>

\* a trial whose sample does not improve the best value: the range goes on
\* to its next value
SchTrial ==
    /\ fr.pc = "smp_set"
    /\ fr.ctx = "scan"
    /\ fr' = Advance(fr, fr.axis, fr.pos + AnnealedStep(MANUAL_STEP, fr.i))
    /\ UNCHANGED <<mcVars, oscilloscope, ev, codec, worker>>

\* the closing set_motor_positions of the outer iteration has returned
SchCommit ==
    /\ fr.pc = "smp_set"
    /\ fr.ctx = "commit"
    /\ fr' = AfterSet(fr)
    /\ UNCHANGED <<mcVars, oscilloscope, ev, codec, worker>>

NextSchedule == SchHead \/ SchTrial \/ SchCommit

SpecSchedule == InitSchedule /\ [][NextSchedule]_vars

-----------------------------------------------------------------------------
(* Both devices driven call by call, connected or not: SpecGuard *)

\* the operations of OscilloscopeReader other than connect
ScopeOps ==
    { "disconnect", "configure", "get_sample_rate", "start_acquisition",
      "stop_acquisition", "beep", "read_values", "read_values_with_time",
      "query", "write" }

\* the writes and queries an operation sends to a connected instrument:
\* configure with start_acquisition, read_values with a channel,
\* read_values_with_time with no sample rate stored
ScopeRequests(op) ==
    CASE op = "configure" -> 6
      [] op = "beep" -> 2
      [] op = "read_values" -> 2
      [] op = "read_values_with_time" -> 3
      [] OTHER -> 1

\* an OscilloscopeReader operation: every one but disconnect begins with
\* `if not self.is_connected: raise RuntimeError`, and disconnect does
\* nothing unless connected
scope_operation(connected, op) ==
    IF ~connected
    THEN [raised |-> op # "disconnect", io |-> 0, connected |-> FALSE]
    ELSE [raised |-> FALSE, io |-> ScopeRequests(op),
          connected |-> op # "disconnect"]

\* the operations of MotorController other than connect
MotorOps ==
    { "disconnect", "set_acceleration", "set_speed", "set_torque_enable",
      "configure_servos", "set_goal_positions", "read_positions",
      "wait_for_positions" }

\* what a call leaves behind: the device, the method, whether it raised, the
\* transport calls it made and is_connected when it began
GuardCall(device, op, raised, io, was_conn) ==
    [device |-> device, op |-> op, raised |-> raised, io |-> io,
     was_conn |-> was_conn]

\* a MotorController operation; outcomes are those of its writes, readFail
\* that of its grouped read. wait_for_positions is called with timeout 0 and
\* its grouped read takes a tick, so that it returns after one read
motor_operation(op, outcomes, readFail) ==
    CASE op = "disconnect" ->
           LET r == disconnect(is_connected, port_open, syncReadParams,
                               [k \in Servos |-> outcomes[k]])
           IN  [raised |-> r.raised,
                io |-> Cardinality(r.torque) + IF r.connected THEN 0 ELSE
                                                IF is_connected THEN 1 ELSE 0,
                connected |-> r.connected, port |-> r.port,
                readParams |-> r.readParams, params |-> syncWriteParams,
                goal |-> goal]
      [] op \in {"set_acceleration", "set_speed", "set_torque_enable"} ->
           LET r == CASE op = "set_acceleration" ->
                            set_acceleration(is_connected, outcomes[1])
                      [] op = "set_speed" -> set_speed(is_connected, outcomes[1])
                      [] OTHER -> set_torque_enable(is_connected, outcomes[1])
           IN  [raised |-> r.raised, io |-> IF r.issued THEN 1 ELSE 0,
                connected |-> is_connected, port |-> port_open,
                readParams |-> syncReadParams, params |-> syncWriteParams,
                goal |-> goal]
      [] op = "configure_servos" ->
           LET r == configure_servos(is_connected, outcomes)
           IN  [raised |-> r.raised, io |-> r.writes,
                connected |-> is_connected, port |-> port_open,
                readParams |-> syncReadParams, params |-> syncWriteParams,
                goal |-> goal]
      [] op = "set_goal_positions" ->
           LET r == set_goal_positions(is_connected, syncWriteParams, HOME,
                                       0, outcomes[1] # "ok")
           IN  [raised |-> r.raised, io |-> r.tx,
                connected |-> is_connected, port |-> port_open,
                readParams |-> syncReadParams, params |-> r.params,
                goal |-> IF r.delivered THEN GoalAfter(goal, r.sent) ELSE goal]
      [] op = "read_positions" ->
           LET r == read_positions(is_connected, present, readFail)
           IN  [raised |-> r.raised, io |-> r.reads,
                connected |-> is_connected, port |-> port_open,
                readParams |-> syncReadParams, params |-> syncWriteParams,
                goal |-> goal]
      [] OTHER ->
           LET w == wait_poll(wait_begin(HOME, 20, TRUE, 0), is_connected,
                              present, readFail, 1)
           IN  [raised |-> w.result = "raised",
                io |-> read_positions(is_connected, present, readFail).reads,
                connected |-> is_connected, port |-> port_open,
                readParams |-> syncReadParams, params |-> syncWriteParams,
                goal |-> goal]

\* write outcomes: all succeed, or the j-th fails
GuardOutcomes ==
    { [j \in 1..8 |-> IF j = f THEN "comm" ELSE "ok"] : f \in {0, 1, 2, 4, 8} }

InitGuard ==
    /\ is_connected = FALSE
    /\ port_open = FALSE
    /\ syncWriteParams = <<>>
    /\ syncReadParams = <<>>
    /\ present \in StartPresent
    /\ goal = present
    /\ call = GuardCall("none", "none", FALSE, 0, FALSE)
    /\ wfp = NoWait
    /\ oscilloscope = [is_connected |-> FALSE]
    /\ fr = NoFrame
    /\ ev = NoEval
    /\ codec = NoCodec
    /\ worker = NoWorker

GMotorConnect ==
    /\ ~is_connected
    /\ \E fault \in ConnectFaults :
         LET r == connect(fault) IN
         /\ is_connected' = r.connected
         /\ port_open' = r.port
         /\ syncReadParams' = r.readParams
         /\ call' = GuardCall("motor", "connect", ~r.ret, 0, is_connected)
    /\ UNCHANGED <<syncWriteParams, goal, present, wfp>>
    /\ UNCHANGED mainVars

GMotorCall ==
    /\ \E op \in MotorOps, outcomes \in GuardOutcomes, readFail \in {0, 5} :
         LET r == motor_operation(op, outcomes, readFail) IN
         /\ is_connected' = r.connected
         /\ port_open' = r.port
         /\ syncReadParams' = r.readParams
         /\ syncWriteParams' = r.params
         /\ goal' = r.goal
         /\ call' = GuardCall("motor", op, r.raised, r.io, is_connected)
    /\ UNCHANGED <<present, wfp>>
    /\ UNCHANGED mainVars

\* OscilloscopeReader.connect(): True with is_connected set, or False
GScopeConnect ==
    /\ \E ok \in BOOLEAN :
         /\ oscilloscope' = [is_connected |-> ok]
         /\ call' = GuardCall("oscilloscope", "connect", FALSE, 1,
                              oscilloscope.is_connected)
    /\ UNCHANGED <<is_connected, port_open, syncWriteParams, syncReadParams,
                   goal, present, wfp, fr, ev, codec, worker>>

GScopeCall ==
    /\ \E op \in ScopeOps :
         LET r == scope_operation(oscilloscope.is_connected, op) IN
         /\ oscilloscope' = [is_connected |-> r.connected]
         /\ call' = GuardCall("oscilloscope", op, r.raised, r.io,
                              oscilloscope.is_connected)
    /\ UNCHANGED <<is_connected, port_open, syncWriteParams, syncReadParams,
                   goal, present, wfp, fr, ev, codec, worker>>

NextGuard == GMotorConnect \/ GMotorCall \/ GScopeConnect \/ GScopeCall

SpecGuard == InitGuard /\ [][NextGuard]_vars

-----------------------------------------------------------------------------
(* The CUAServoMirrorWorker driven call by call: SpecMirror *)

\* (horizontal, vertical) positions asked of a mirror
MirrorTargets == { <<-5, 7>>, <<7, 7>> }

\* the mirrors of a shot file with their positions, in the order of
\* devices.keys()
ShotTables ==
    { <<<<"mirror_1", a[1], a[2]>>>> : a \in MirrorTargets }
    \cup { <<<<"mirror_2", a[1], a[2]>>>> : a \in MirrorTargets }
    \cup { << <<"mirror_1", a[1], a[2]>>, <<"mirror_2", b[1], b[2]>> >> :
             a \in MirrorTargets, b \in MirrorTargets }

\* outcomes of the two goal-position writes of each set_position of a call:
\* all succeed, the first write of the first mirror fails, or the second
\* write of the second mirror fails
MirrorOutcomes ==
    { << <<"ok", "ok">>, <<"ok", "ok">> >>,
      << <<"comm", "ok">>, <<"ok", "ok">> >>,
      << <<"ok", "ok">>, <<"ok", "servo_error">> >> }

InitMirror == InitController /\ InitMainVars

WSetPosition ==
    /\ \E table \in {t \in ShotTables : Len(t) = 1}, fresh \in BOOLEAN,
          outcomes \in MirrorOutcomes :
         worker' = set_position(
                       [worker EXCEPT !.call = WorkerCall("set_position", table, fresh)],
                       table[1][1], table[1][2], table[1][3], fresh, outcomes[1])
    /\ UNCHANGED <<mcVars, oscilloscope, fr, ev, codec>>

WTransitionToBuffered ==
    /\ \E table \in ShotTables, fresh \in BOOLEAN, outcomes \in MirrorOutcomes :
         worker' = transition_to_buffered(
                       [worker EXCEPT !.call = WorkerCall("transition_to_buffered",
                                                          table, fresh)],
                       table, fresh, outcomes)
    /\ UNCHANGED <<mcVars, oscilloscope, fr, ev, codec>>

NextMirror == WSetPosition \/ WTransitionToBuffered

SpecMirror == InitMirror /\ [][NextMirror]_vars

-----------------------------------------------------------------------------
(* Properties of the MotorController *)

\* C1: grouped-write atomicity. When addParam fails for one of the four
\* servos in a set_goal_positions call on a connected controller, the call
\* raises, txPacket is not called in it and no goal register changes.
C1_StagingFailureSendsNothing ==
    [][(/\ call'.op = "set_goal_positions"
        /\ call'.was_conn
        /\ call'.staged < 4)
       => (/\ call'.raised
           /\ call'.tx = 0
           /\ call'.sent = <<>>
           /\ goal' = goal)]_vars

\* a connected call in which the third addParam failed
C1_Witness ==
    /\ call.op = "set_goal_positions"
    /\ call.was_conn
    /\ call.staged = 2
    /\ call.raised
    /\ call.tx = 0

\* C2: disconnect safety contract. Every disconnect() of a connected
\* controller issues a torque-disable write to each of the four servos, also
\* when one of the writes fails.
C2_DisconnectDisablesEveryServo ==
    (call.op = "disconnect" /\ call.was_conn) => call.torque = Servos

\* the read of the running wait found every servo within the threshold
C4_Converged ==
    \A k \in Servos :
        /\ wfp.goals[k] - present[k] <= wfp.threshold
        /\ present[k] - wfp.goals[k] <= wfp.threshold

\* C4: the result of wait_for_positions. It returns after at least one read;
\* True exactly when the read of the current poll finds all four servos
\* within the threshold (inclusive), whatever the timeout; False only when a
\* read that did not converge is followed by a timeout test that finds the
\* timeout exceeded; it raises only when read_positions raised; and it goes
\* on polling only while neither has happened.
C4_WaitResult ==
    /\ wfp.result # "none" => wfp.polls >= 1 /\ ~wfp.active
    /\ wfp.result = "true" => ~call.raised /\ C4_Converged
    /\ wfp.result = "false" =>
         /\ ~call.raised
         /\ ~C4_Converged
         /\ wfp.has_timeout
         /\ wfp.elapsed > wfp.timeout
    /\ wfp.result = "raised" <=> (call.op = "wait_for_positions" /\ call.raised)
    /\ (wfp.active /\ wfp.polls >= 1) =>
         /\ ~call.raised
         /\ ~C4_Converged
         /\ wfp.has_timeout => wfp.checked <= wfp.timeout

\* servos already at the goals, timeout 0, and the first read was slow
\* enough for the timeout to have passed: the call returned True
C4_Witness ==
    /\ wfp.result = "true"
    /\ wfp.has_timeout
    /\ wfp.timeout = 0
    /\ wfp.polls = 1
    /\ wfp.elapsed > wfp.timeout

\* C5: the timing of wait_for_positions with timeout = 0.2 s and a poll
\* interval of 0.01 s. A call that converges within 3 polls returns True
\* before the timeout; a call returns False only once more than the timeout
\* has elapsed; and a call that never converges has returned by its
\* (TestTimeout + 2)-th poll.
C5_WaitTiming ==
    (wfp.has_timeout /\ wfp.timeout = TestTimeout) =>
        /\ (wfp.result = "true" /\ wfp.polls <= 3) => wfp.elapsed < wfp.timeout
        /\ wfp.result = "false" => wfp.elapsed >= wfp.timeout
        /\ wfp.polls <= TestTimeout + 2
        /\ wfp.active => wfp.polls <= TestTimeout + 1

\* a wait with the 0.2 s timeout that never converged and returned False
C5_Witness ==
    /\ wfp.has_timeout
    /\ wfp.timeout = TestTimeout
    /\ wfp.result = "false"
    /\ wfp.elapsed > TestTimeout
    /\ wfp.polls >= TestTimeout \div (MaxReadLatency + POLL_INTERVAL)

\* C6: bounded waiting. Every wait_for_positions call that has begun ends.
C6_WaitsTerminate == wfp.active ~> ~wfp.active

\* what C23 says of a read_positions call whatever the connection: a failed
\* transaction or one servo's data missing raises, a call that raises
\* returns nothing, and a call that returns has the position and the speed
\* of each of the four servos
C23_Outcome ==
    /\ \A f \in 1..5 :
         LET r == read_positions(TRUE, present, f) IN
         r.raised /\ r.reads = 1 /\ ReadResult(r, <<0, 0, 0, 0>>) = <<>>
    /\ call'.raised => call'.ret = <<>>
    /\ ~call'.raised =>
         /\ DOMAIN call'.ret = Servos
         /\ \A k \in Servos :
              /\ call'.ret[k].position = present[k] % 65536
              /\ call'.ret[k].speed \in -32767..32767

\* C23 as stated: every read_positions call issues exactly one grouped read
\* transaction; it raises, returning nothing, when the transaction fails or
\* the data of a servo is unavailable, and returns a position and a speed
\* for each servo otherwise.
C23_OneTransactionPerCall ==
    [][(call'.op = "read_positions" /\ call' # call) =>
          /\ call'.reads = 1
          /\ C23_Outcome]_vars

\* C23, amended: a read_positions call on a connected controller issues
\* exactly one grouped read transaction, and a call on a controller that is
\* not connected raises before any transaction; a call raises, returning
\* nothing, when the transaction fails or the data of a servo is
\* unavailable, and returns a position and a speed for each servo otherwise.
C23_ReadPositions ==
    [][(call'.op = "read_positions" /\ call' # call) =>
          /\ call'.reads = IF call'.was_conn THEN 1 ELSE 0
          /\ ~call'.was_conn => call'.raised
          /\ C23_Outcome]_vars

\* a read on a connected controller returned four positions and speeds, one
\* of the speeds negative
C23_Witness ==
    /\ call.op = "read_positions"
    /\ call.was_conn
    /\ ~call.raised
    /\ call.reads = 1
    /\ call.ret[1] = [position |-> present[1], speed |-> 5]
    /\ call.ret[2] = [position |-> present[2], speed |-> -5]

\* C27: length validation. A set_goal_positions call written with a number
\* of positions other than four raises where it is made: no addParam and no
\* txPacket is called, the staged list and the goal registers stay as they
\* were.
C27_LengthValidation ==
    [][(/\ call'.op = "set_goal_positions"
        /\ call' # call
        /\ Len(call'.args) # 4) =>
          /\ call'.raised
          /\ call'.staged = 0
          /\ call'.tx = 0
          /\ call'.sent = <<>>
          /\ syncWriteParams' = syncWriteParams
          /\ goal' = goal]_vars

\* a connected controller was called with three positions
C27_Witness ==
    /\ call.op = "set_goal_positions"
    /\ call.was_conn
    /\ Len(call.args) = 3
    /\ call.raised
    /\ call.staged = 0
    /\ call.tx = 0

\* C32: disconnect postcondition. disconnect() never raises; when it
\* returns on a connected controller the port is closed and is_connected is
\* False, also when a torque-disable write failed; and a disconnect() of a
\* controller that is not connected issues no write.
C32_DisconnectPostcondition ==
    [][(/\ call'.op = "disconnect"
        /\ (call' # call \/ is_connected' # is_connected)) =>
          /\ ~call'.raised
          /\ call'.was_conn => (~is_connected' /\ ~port_open')
          /\ ~call'.was_conn => call'.torque = {}]_vars

\* C34: no stale staged parameters. The grouped write a set_goal_positions
\* call transmits, delivered or not, is the four pairs <<servo, position>>
\* of that call, one per servo in order, whatever an earlier call left
\* staged.
C34_NoStaleParams ==
    [][(/\ call'.op = "set_goal_positions"
        /\ call' # call
        /\ call'.tx >= 1) =>
          LET carried == IF call'.raised THEN syncWriteParams' ELSE call'.sent
          IN  /\ call'.tx = 1
              /\ Len(call'.args) = 4
              /\ carried = [k \in 1..4 |-> <<k, call'.args[k] % 65536>>]]_vars

\* a call that found the three pairs an earlier call had staged before its
\* fourth addParam failed has transmitted its own four
C34_Witness ==
    /\ call.op = "set_goal_positions"
    /\ Len(call.found) = 3
    /\ call.tx = 1
    /\ ~call.raised
    /\ Len(call.sent) = 4
    /\ call.sent[1][2] # call.found[1][2]

\* C35: the not-connected guard. A MotorController or OscilloscopeReader
\* operation other than connect that is called while the device's
\* is_connected is False makes no transport call and changes nothing of the
\* device; disconnect returns, every other operation raises.
C35_NotConnectedGuard ==
    [][(/\ call' # call
        /\ call'.op # "connect"
        /\ ~call'.was_conn) =>
          /\ call'.io = 0
          /\ call'.raised <=> call'.op # "disconnect"
          /\ UNCHANGED <<is_connected, port_open, syncWriteParams,
                         syncReadParams, goal, oscilloscope>>]_vars

\* wait_for_positions was called on a MotorController that is not connected
C35_Witness ==
    /\ call.device = "motor"
    /\ call.op = "wait_for_positions"
    /\ ~call.was_conn
    /\ call.raised
    /\ call.io = 0
    /\ ~is_connected

\* C36: connect is all-or-nothing. A connect() of a controller that is not
\* connected returns True exactly when it leaves is_connected True, and then
\* the port was opened, was not closed and all four servo ids are in the
\* grouped-read set; otherwise it returns False, is_connected stays False, and
\* a port that was opened has been closed again.
C36_ConnectAllOrNothing ==
    [][(call'.op = "connect" /\ call' # call) =>
          /\ call'.ret \in BOOLEAN
          /\ call'.ret <=> is_connected'
          /\ call'.ret =>
               /\ call'.opened /\ ~call'.closed /\ port_open'
               /\ syncReadParams' = <<1, 2, 3, 4>>
          /\ ~call'.ret =>
               /\ ~is_connected' /\ ~port_open'
               /\ call'.opened => call'.closed]_vars

\* connect() failed after the port had been opened and one servo id added
C36_Witness ==
    /\ call.op = "connect"
    /\ call.ret = FALSE
    /\ call.opened /\ call.closed
    /\ Len(syncReadParams) = 1
    /\ ~is_connected /\ ~port_open

-----------------------------------------------------------------------------
(* Properties of optimization() *)

\* C3: out-of-range no-op. An evaluation whose point has a position outside
\* [MIN_POSITION, MAX_POSITION] issues no set_goal_positions, no
\* wait_for_positions and no instrument read, and its sample changes neither
\* phase's best value or best position.
C3_OutOfRangeIsNoOp ==
    [][/\ ~ev'.in_range => ev'.log = <<>>
       /\ (~ev.in_range /\ fr.pc = "gm_poll") =>
            /\ fr'.manual_best_y = fr.manual_best_y
            /\ fr'.manual_best_pos = fr.manual_best_pos
            /\ fr'.best_y = fr.best_y
            /\ fr'.best_pos = fr.best_pos]_vars

\* C7: best-value monotonicity. No step of the coordinate scan lowers
\* manual_best_y and no step of the surrogate phase lowers best_y, whatever
\* the samples are.
C7_BestNeverDecreases ==
    [][/\ fr.ctx \in {"scan", "commit"} => fr'.manual_best_y >= fr.manual_best_y
       /\ fr.ctx \in {"opt", "final"} => fr'.best_y >= fr.best_y]_vars

\* a trial of the scan whose sample was below the best value has been
\* compared and the next trial is about to be issued
C7_Witness ==
    /\ fr.ctx = "scan"
    /\ fr.pc = "smp_set"
    /\ fr.mean # NegInf
    /\ fr.mean < fr.manual_best_y

\* C8: the coordinate-scan step. Each trial of the scan is for one servo,
\* its vector is manual_best_pos with that servo's component replaced by the
\* trial value; the servo of the next trial is the same or the next one, the
\* first trial of an outer iteration is for servo 1 and the closing command
\* follows a trial of servo 4; a sample above manual_best_y replaces
\* manual_best_y and that component of manual_best_pos before the next trial
\* vector is built, and any other sample changes neither.
C8_ScanStep ==
    [][/\ fr'.ctx = "scan" /\ fr'.pc # "scan_head" =>
            /\ fr'.axis \in Servos
            /\ fr'.tv = ToReal([fr'.manual_best_pos EXCEPT ![fr'.axis] = fr'.pos])
       /\ fr.pc = "scan_head" /\ fr'.ctx = "scan" /\ fr'.pc = "smp_set" =>
            fr'.axis = 1
       /\ fr.ctx = "scan" /\ fr.pc = "gm_poll" /\ fr'.pc = "smp_set" =>
            /\ fr'.ctx = "scan" => fr'.axis \in {fr.axis, fr.axis + 1}
            /\ fr'.ctx = "commit" => fr.axis = 4
            /\ fr'.mean > fr.manual_best_y =>
                 /\ fr'.manual_best_y = fr'.mean
                 /\ fr'.manual_best_pos = [fr.manual_best_pos EXCEPT ![fr.axis] = fr.pos]
            /\ ~(fr'.mean > fr.manual_best_y) =>
                 /\ fr'.manual_best_y = fr.manual_best_y
                 /\ fr'.manual_best_pos = fr.manual_best_pos]_vars

\* servo 4 is being scanned around a best vector whose components 1 to 3
\* the scan of those servos has set, the last of them on a second improvement
C8_Witness ==
    /\ fr.ctx = "scan"
    /\ fr.pc = "smp_set"
    /\ fr.axis = 4
    /\ fr.manual_best_y > 0
    /\ fr.manual_best_pos[1] = fr.low_position[1]
    /\ fr.manual_best_pos[3] = fr.low_position[3] + ScanStep(fr.i)
    /\ fr.tv[1] = fr.low_position[1] * FRAC
    /\ fr.tv[4] = fr.pos * FRAC

\* C9: commit at the end of an outer iteration. When the closing
\* set_motor_positions(manual_best_pos) of an outer iteration has returned,
\* the goals the servos hold are manual_best_pos.
C9_CommitTargetsBest ==
    [][(fr.ctx = "commit" /\ fr'.pc = "scan_head") =>
          goal' = fr'.manual_best_pos]_vars

\* C10: commit on interruption. After an exception or a KeyboardInterrupt
\* has ended the scan, the goals the servos hold are the scan's best vector.
C10_CommitOnInterruption ==
    (/\ fr.pc = "opt_seed"
     /\ fr.scan_exit \in {"exception", "interrupt"}
     /\ fr.manual_best_pos # <<>>) =>
        goal = fr.manual_best_pos

\* the sequence s begins the sequence t
C15_Prefix(s, t) ==
    /\ Len(s) <= Len(t)
    /\ \A j \in 1..Len(s) : s[j] = t[j]

\* C15: evaluation order and advisory wait. What an evaluation at a point
\* in range has done is always a beginning of set_goal_positions,
\* wait_for_positions, settle sleep, instrument read; when the wait returns,
\* True or False, the evaluation goes on to the sampling; and the value the
\* sampling returns is the mean of the buffer read, whatever the wait
\* returned.
C15_EvaluationOrder ==
    [][/\ ev'.in_range =>
            C15_Prefix(ev'.log, <<"set", "wait", "settle", "read">>)
       /\ (/\ fr.pc = "smp_wait"
           /\ fr.ctx \in {"scan", "opt"}
           /\ wfp'.result \in {"true", "false"}) =>
            /\ fr'.pc = "gm_poll"
            /\ fr'.ctx = fr.ctx
       /\ (fr.pc = "gm_poll" /\ fr'.pc \in {"smp_set", "opt_ask"}) =>
            \A b \in {"true", "false"} :
                wfp.result = b =>
                    fr'.mean = ev'.data[Len(ev'.data) - 2]
                               + ev'.data[Len(ev'.data) - 1]
                               + ev'.data[Len(ev'.data)]]_vars

\* the wait of an evaluation in range timed out and the instrument has
\* been read all the same
C15_Witness ==
    /\ ev.in_range
    /\ ev.log = <<"set", "wait", "settle", "read">>
    /\ wfp.result = "false"
    /\ fr.ctx = "opt"
    /\ fr.pc = "opt_ask"
    /\ fr.t = 1
    /\ fr.mean = 6

C17_AskTell ==
    [][/\ fr'.ctx = "opt" =>
            /\ Len(fr'.told) = fr'.t
            /\ fr'.asks = IF fr'.pc = "opt_ask" THEN fr'.t ELSE fr'.t + 1
            /\ fr'.pc # "opt_ask" => fr'.tv = fr'.x
            /\ fr'.pc \in {"smp_wait", "gm_poll"} => ev'.point = fr'.x
       /\ (fr.ctx = "opt" /\ fr.pc = "opt_ask" /\ fr'.ctx = "opt") =>
            /\ fr'.pc = "smp_set"
            /\ fr'.told = fr.told
       /\ (fr.ctx = "opt" /\ fr.pc = "gm_poll" /\ fr'.pc = "opt_ask") =>
            /\ fr'.t = fr.t + 1
            /\ fr'.told =
                 fr.told \o << [x |-> fr.x,
                                v |-> 0 - (fr'.mean - 3 * OSCILLOSCOPE_SCALING_OFFSET)] >>]_vars

\* two iterations have each asked, evaluated and told
C17_Witness ==
    /\ fr.ctx = "opt"
    /\ fr.pc = "opt_ask"
    /\ fr.asks = 2
    /\ Len(fr.told) = 2
    /\ fr.told[2].x = fr.x
    /\ fr.told[2].v = 3 * OSCILLOSCOPE_SCALING_OFFSET - 6
    /\ fr.told[1].x # fr.x

\* C18: the surrogate's best tracking. In the surrogate phase best_y is the
\* greatest metric of the evaluations made so far and best_pos the point of
\* the first evaluation that had it (no evaluation yet: -inf and None).
C18_BestTracking ==
    fr.ctx \in {"opt", "final"} =>
        IF fr.told = <<>>
        THEN fr.best_y = NegInf /\ fr.best_pos = <<>>
        ELSE \E j \in 1..Len(fr.told) :
               /\ \A k \in 1..Len(fr.told) : 0 - fr.told[k].v <= 0 - fr.told[j].v
               /\ \A k \in 1..(j - 1) : 0 - fr.told[k].v < 0 - fr.told[j].v
               /\ fr.best_y = 0 - fr.told[j].v
               /\ fr.best_pos = fr.told[j].x

\* two evaluations at different points gave the same metric: the first
\* point is the best
C18_Witness ==
    /\ fr.ctx = "opt"
    /\ Len(fr.told) = 2
    /\ fr.told[1].v = fr.told[2].v
    /\ fr.told[1].x # fr.told[2].x
    /\ fr.best_pos = fr.told[1].x

\* C19: the surrogate's terminal action. When the closing
\* set_motor_positions(best_pos) of the surrogate phase has returned, the
\* goals the servos hold are the coordinates of best_pos truncated to
\* integers.
C19_FinalTargetsBest ==
    [][(fr.ctx = "final" /\ fr'.pc = "main_end") =>
          goal' = [k \in Servos |-> fr.best_pos[k] \div FRAC]]_vars

\* C20: phase sequencing and seeding. The surrogate phase is entered only
\* from between the phases, after the scan has ended; the head of an outer
\* iteration of the scan reads the positions and sets each window to the
\* position read -/+ int(ScanMargin0 / 1.8^i); and the surrogate's window of
\* each servo is the position read after the scan -/+ 5.
C20_PhaseSeeding ==
    [][/\ fr'.ctx \in {"opt", "final"} =>
            /\ fr'.scan_exit \in {"completed", "exception", "interrupt"}
            /\ fr.ctx \in {"none", "opt", "final"}
            /\ fr.ctx = "none" => fr.pc = "opt_seed"
       /\ (fr.pc = "scan_head" /\ fr'.pc = "smp_set") =>
            /\ call'.op = "read_positions"
            /\ ~call'.raised
            /\ \A k \in Servos :
                 /\ fr'.low_position[k] =
                      present'[k] - ((ScanMargin0 * 10^fr.i) \div 18^fr.i)
                 /\ fr'.high_position[k] =
                      present'[k] + ((ScanMargin0 * 10^fr.i) \div 18^fr.i)
       /\ (fr.pc = "opt_seed" /\ fr'.pc = "opt_ask") =>
            /\ call'.op = "read_positions"
            /\ ~call'.raised
            /\ \A k \in Servos :
                 /\ fr'.low_position[k] = present'[k] - 5
                 /\ fr'.high_position[k] = present'[k] + 5]_vars

\* a scan of two outer iterations was interrupted while the servos were
\* away from their goals, and the surrogate phase has its windows
C20_Witness ==
    /\ fr.ctx = "opt"
    /\ fr.pc = "opt_ask"
    /\ fr.t = 0
    /\ fr.scan_exit = "interrupt"
    /\ fr.manual_search_iterations = 2
    /\ fr.low_position = [k \in Servos |-> present[k] - 5]
    /\ fr.high_position = [k \in Servos |-> present[k] + 5]
    /\ goal # present

-----------------------------------------------------------------------------
(* Properties of main() *)

\* C11: interruption is not fatal. A KeyboardInterrupt or an exception
\* raised inside the surrogate phase never ends main() with an uncaught
\* exception: the run goes on to the disconnects.
C11_InterruptionIsNotFatal ==
    ~(fr.pc = "crashed" /\ fr.opt_exit \in {"exception", "interrupt"})

-----------------------------------------------------------------------------
(* Properties of the codec *)

\* C13: codec round trip. For every integer x with -32000 < x < 32000,
\* decoder(encoder(x)) returns x.
C13_RoundTrip ==
    (/\ codec.op = "decoder(encoder)"
     /\ -32000 < codec.arg
     /\ codec.arg < 32000) =>
        (~codec.ret.none /\ codec.ret.value = codec.arg)

\* a negative position has gone through encoder and decoder
C13_Witness ==
    /\ codec.op = "decoder(encoder)"
    /\ codec.arg = -31999
    /\ codec.ret = Value(-31999)

\* C14: codec definition. encoder(x) returns c when c >= 0 and 32767 - c
\* otherwise, for c = clip(x, -32000, 32000); decoder(w) returns v when
\* v <= 32767 and 32767 - v otherwise, for v = clip(w, 0, 65534); neither
\* returns None; encoder's result is in [0, 65534] and decoder's in
\* [-32767, 32767].
C14_CodecDefinition ==
    /\ codec.op = "encoder" =>
         LET c == IF codec.arg < -32000 THEN -32000
                  ELSE IF codec.arg > 32000 THEN 32000 ELSE codec.arg
         IN  /\ ~codec.ret.none
             /\ codec.ret.value = IF c >= 0 THEN c ELSE 32767 - c
             /\ codec.ret.value \in 0..65534
    /\ codec.op = "decoder" =>
         LET v == IF codec.arg < 0 THEN 0
                  ELSE IF codec.arg > 65534 THEN 65534 ELSE codec.arg
         IN  /\ ~codec.ret.none
             /\ codec.ret.value = IF v <= 32767 THEN v ELSE 32767 - v
             /\ codec.ret.value \in -32767..32767

\* decoder was given a word above 65534 and returned -32767
C14_Witness ==
    /\ codec.op = "decoder"
    /\ codec.arg = 65536
    /\ codec.ret = Value(-32767)

-----------------------------------------------------------------------------
(* Further properties of optimization() *)

\* C21: scan window coverage. In an outer iteration the trials of a servo
\* start at its window's low end current - margin and go up by the step, and
\* the scan leaves the servo only when the next value would lie above the
\* window's high end current + margin: every value low + j * step of the
\* closed window is a trial, current + margin among them when 2 * margin is a
\* multiple of the step.
C21_ScanWindowCoverage ==
    [][/\ (fr.pc = "scan_head" /\ fr'.ctx = "scan" /\ fr'.pc = "smp_set") =>
            fr'.pos = fr'.low_position[fr'.axis]
       /\ (fr.ctx = "scan" /\ fr.pc = "gm_poll" /\ fr'.pc = "smp_set") =>
            /\ (fr'.ctx = "scan" /\ fr'.axis = fr.axis) =>
                 /\ fr'.pos = fr.pos + ScanStep(fr.i)
                 /\ fr'.pos <= fr.high_position[fr.axis]
            /\ (fr'.ctx = "scan" /\ fr'.axis # fr.axis) =>
                 fr'.pos = fr'.low_position[fr'.axis]
            /\ (fr'.ctx = "commit" \/ fr'.axis # fr.axis) =>
                 fr.pos + ScanStep(fr.i) > fr.high_position[fr.axis]]_vars

\* the scan's best position is no farther from the optimum after a step
\* than before it, once a first sample has been compared
C22_NeverFarther ==
    (/\ fr.manual_best_y # NegInf
     /\ fr.manual_best_pos # <<>>) =>
        SquaredDistance(fr'.manual_best_pos, oscilloscope.optimum)
            <= SquaredDistance(fr.manual_best_pos, oscilloscope.optimum)

\* the annealed margin of the outer iteration under way is below the
\* distance of every servo of the best position from the optimum
C22_MarginBelowOffset ==
    /\ fr.ctx \in {"scan", "commit"}
    /\ fr.pc = "smp_set"
    /\ \A k \in Servos :
         ScanMargin(fr.i) < Abs(fr.manual_best_pos[k] - oscilloscope.optimum[k])

\* C22 as stated: end-to-end convergence. With the signal
\* -(sum of (x[k] - t[k])^2), t inside the bounds, and an actuator that
\* reaches every goal, the best position never gets farther from t, and it
\* stops changing once the annealed margin is below the remaining offset.
C22_StopsBelowOffset ==
    [][/\ C22_NeverFarther
       /\ C22_MarginBelowOffset => fr'.manual_best_pos = fr.manual_best_pos]_vars

\* C22, amended: the best position never gets farther from t, and within an
\* outer iteration no servo of it leaves the window [current - margin,
\* current + margin] around the position read at the head of the iteration:
\* with the margin below a servo's offset from t at the head of the
\* iteration the best position can still move towards t, by the margin at
\* most, and that servo does not reach t in the iteration.
C22_Convergence ==
    [][/\ C22_NeverFarther
       /\ (fr'.ctx \in {"scan", "commit"} /\ fr'.pc = "smp_set") =>
            \A k \in Servos :
                /\ fr'.manual_best_pos[k] >= fr'.low_position[k]
                /\ fr'.manual_best_pos[k] <= fr'.high_position[k]
                /\ ScanMargin(fr'.i) < Abs(fr'.low_position[k] + ScanMargin(fr'.i)
                                             - oscilloscope.optimum[k]) =>
                     fr'.manual_best_pos[k] # oscilloscope.optimum[k]]_vars

\* in the second outer iteration, whose margin was below the offset of every
\* servo, the best position has moved towards the optimum
C22_Witness ==
    /\ fr.ctx = "commit"
    /\ fr.i = 1
    /\ \A k \in Servos :
         /\ ScanMargin(1) < Abs(fr.low_position[k] + ScanMargin(1) - oscilloscope.optimum[k])
         /\ fr.manual_best_pos[k] = fr.low_position[k]
         /\ Abs(fr.manual_best_pos[k] - oscilloscope.optimum[k]) = 1

\* C24: transport failure ends the run. The step on which
\* set_goal_positions or read_positions raises (in set_motor_positions, in
\* the wait's poll, at the head of an outer iteration or between the phases)
\* ends optimization() and main() with it: no trial and no phase follows.
C24_TransportFailureEndsRun ==
    [][(/\ fr.pc \in {"smp_set", "smp_wait", "scan_head", "opt_seed"}
        /\ fr.ctx # "init"
        /\ call'.raised
        /\ call'.op \in {"set_goal_positions", "read_positions", "wait_for_positions"}
        /\ fr'.scan_exit = "interrupt" => fr.scan_exit = "interrupt"
        /\ fr'.opt_exit = "interrupt" => fr.opt_exit = "interrupt") =>
          fr'.pc = "crashed"]_vars

\* C25: signal validity. An evaluation of blackbox whose metric is below the
\* noise floor raises instead of returning the metric, and is never recorded
\* as a best value: so for the least metric there is, that of a buffer whose
\* points are all 0, which is below every noise floor that rejects anything.
C25_BelowNoiseNeverBest ==
    [][(/\ fr.ctx = "opt"
        /\ fr.pc = "gm_poll"
        /\ fr'.pc = "opt_ask"
        /\ fr'.mean = 0) =>
          /\ fr'.best_y = fr.best_y
          /\ fr'.best_pos = fr.best_pos]_vars

\* C26: plateau early stop. Against the noiseless instrument an outer
\* iteration after the first that ends with the best position where the
\* iteration read it has improved nothing: its best value is the previous
\* iteration's, a ratio of 1, below every threshold above 1. The scan then
\* stops instead of running the outer iterations that remain.
C26_PlateauEarlyStop ==
    [][(/\ fr.pc = "scan_head"
        /\ fr.i >= 2
        /\ fr.i < fr.manual_search_iterations
        /\ \A k \in Servos :
             fr.manual_best_pos[k] = fr.low_position[k] + ScanMargin(fr.i - 1)) =>
          fr'.pc = "opt_seed"]_vars

\* C30: the best position was really commanded. When a sample makes the
\* trial point of the scan or of the surrogate phase the new best position,
\* the trial's set_motor_positions has transmitted a set_goal_positions with
\* that point (its coordinates truncated to integers) before the sample was
\* read, and the new best position lies in [MIN_POSITION, MAX_POSITION].
C30_BestWasCommanded ==
    [][/\ (/\ fr.pc = "gm_poll"
           /\ fr.ctx = "scan"
           /\ fr'.manual_best_pos # fr.manual_best_pos) =>
            /\ ev.in_range
            /\ Len(ev.log) >= 1
            /\ ev.log[1] = "set"
            /\ goal = fr'.manual_best_pos
            /\ \A k \in Servos :
                 /\ fr'.manual_best_pos[k] >= MIN_POSITION
                 /\ fr'.manual_best_pos[k] <= MAX_POSITION
       /\ (/\ fr.pc = "gm_poll"
           /\ fr.ctx = "opt"
           /\ fr'.best_pos # fr.best_pos) =>
            /\ ev.in_range
            /\ Len(ev.log) >= 1
            /\ ev.log[1] = "set"
            /\ goal = [k \in Servos |-> fr'.best_pos[k] \div FRAC]
            /\ \A k \in Servos :
                 /\ fr'.best_pos[k] >= MIN_POSITION * FRAC
                 /\ fr'.best_pos[k] <= MAX_POSITION * FRAC]_vars

\* C31: commanded goals stay in bounds. Every position main.py stages or
\* transmits in a grouped write, for the initial positioning, a scan trial,
\* a commit, a surrogate trial or the final positioning, is an integer of
\* [MIN_POSITION, MAX_POSITION], the argument of set_motor_positions
\* truncated; so are the goals the servos hold.
C31_GoalsInBounds ==
    [][/\ \A k \in Servos : goal'[k] \in MIN_POSITION..MAX_POSITION
       /\ \A j \in 1..Len(syncWriteParams') :
            syncWriteParams'[j][2] \in MIN_POSITION..MAX_POSITION
       /\ (fr.pc = "smp_set" /\ call'.op = "set_goal_positions") =>
            \A j \in 1..Len(call'.sent) :
                /\ call'.sent[j][2] \in MIN_POSITION..MAX_POSITION
                /\ call'.sent[j][2] = fr.tv[call'.sent[j][1]] \div FRAC]_vars

\* the surrogate proposed a point that is no integer and its truncation was
\* transmitted
C31_Witness ==
    /\ fr.ctx = "opt"
    /\ fr.pc = "smp_wait"
    /\ call.op = "set_goal_positions"
    /\ call.tx = 1
    /\ ~call.raised
    /\ fr.x[1] % FRAC # 0
    /\ call.sent[1] = <<1, fr.x[1] \div FRAC>>
    /\ goal[1] = fr.x[1] \div FRAC

\* C33: the annealing schedule. At outer iteration i the half-width of
\* every window is floor(500 / 1.8^i), which is 500, 277, 154, 85, 47 for
\* i = 0 .. 4, and smaller than that of the iteration before while that one
\* was positive; a servo's trial values go up by max(1, floor(10 / (i + 1))),
\* which is at least 1, and stay below the window's high end, so the scan of
\* a servo ends.
C33_AnnealingSchedule ==
    [][/\ (fr.pc = "scan_head" /\ fr'.pc = "smp_set") =>
            \A k \in Servos :
                LET m == fr'.high_position[k] - present[k] IN
                /\ fr'.low_position[k] = present[k] - m
                /\ m >= 0
                /\ m * 18^fr.i <= 500 * 10^fr.i
                /\ 500 * 10^fr.i < (m + 1) * 18^fr.i
                /\ fr.i <= 4 => m = <<500, 277, 154, 85, 47>>[fr.i + 1]
                /\ (fr.i >= 1 /\ fr.high_position[k] > fr.low_position[k]) =>
                     2 * m < fr.high_position[k] - fr.low_position[k]
       /\ (/\ fr.pc = "smp_set" /\ fr.ctx = "scan"
           /\ fr'.ctx = "scan" /\ fr'.axis = fr.axis) =>
            LET d == fr'.pos - fr.pos IN
            /\ d >= 1
            /\ d = IF 10 \div (fr.i + 1) > 1 THEN 10 \div (fr.i + 1) ELSE 1
            /\ fr'.pos < fr.high_position[fr.axis]]_vars

\* the fifth outer iteration, half-width 47, has come to its last servo
C33_Witness ==
    /\ fr.ctx = "scan"
    /\ fr.pc = "smp_set"
    /\ fr.i = 4
    /\ fr.axis = 4
    /\ fr.high_position[1] - fr.low_position[1] = 94
    /\ fr.pos = fr.low_position[4] + 2

-----------------------------------------------------------------------------
(* Further properties of main() *)

\* C29: release on every exit. A run of main() in which both devices
\* connected does not end, by returning or by an uncaught exception, before
\* motor_controller.disconnect() and oscilloscope.disconnect() have been
\* called: it never ends with both devices still connected.
C29_ReleaseOnEveryExit ==
    ~(/\ fr.pc \in {"exit", "crashed"}
      /\ is_connected
      /\ oscilloscope.is_connected)

-----------------------------------------------------------------------------
(* Properties of the CUAServoMirrorWorker *)

\* C37: smart programming is sound. When a set_position called with
\* fresh=False has returned None for a mirror, the goal registers of that
\* mirror's two servos hold the encoded positions that were asked; and after
\* a transition_to_buffered none of whose writes failed, the servos of every
\* mirror of the shot file hold the encoded positions asked of it.
C37_SmartProgrammingSound ==
    LET c == worker.call
        Holds(j) ==
            LET ids == mirror_mapping_dict[c.table[j][1]] IN
            /\ worker.reg[ids[1]] = encoder(c.table[j][2]).value
            /\ worker.reg[ids[2]] = encoder(c.table[j][3]).value
    IN  /\ \A j \in 1..Len(c.ret) : (~c.fresh /\ c.ret[j] = <<>>) => Holds(j)
        /\ (/\ c.op = "transition_to_buffered"
            /\ \A j \in 1..Len(c.writes) :
                 \A n \in 1..Len(c.writes[j]) : c.writes[j][n] = "ok") =>
              \A j \in 1..Len(c.table) : Holds(j)

-----------------------------------------------------------------------------
(* Further properties of the codec *)

\* C28: codec break points. encoder(decoder(w)) is w for every wire word w
\* in [0, 32000] and in [32768, 64767] and is not w for any w in
\* [32001, 32767] or in [64768, 65534]; decoder(encoder(x)) is x clipped to
\* [-32000, 32000], so it differs from x exactly when |x| > 32000.
C28_BreakPoints ==
    /\ codec.op = "encoder(decoder)" =>
         LET w == codec.arg IN
         /\ (w \in 0..32000 \/ w \in 32768..64767) => codec.ret = Value(w)
         /\ (w \in 32001..32767 \/ w \in 64768..65534) =>
              (codec.ret.none \/ codec.ret.value # w)
    /\ codec.op = "decoder(encoder)" =>
         LET x == codec.arg IN
         /\ ~codec.ret.none
         /\ codec.ret.value = IF x < -32000 THEN -32000
                              ELSE IF x > 32000 THEN 32000 ELSE x
         /\ codec.ret.value # x <=> (x > 32000 \/ x < -32000)

\* the first wire word above 64767 has gone through decoder and encoder and
\* come back as 64767
C28_Witness ==
    /\ codec.op = "encoder(decoder)"
    /\ codec.arg = 64768
    /\ codec.ret = Value(64767)

\* C38: round trip of the codec of test_encoder_decoder.py. For every logical
\* x in [-2^15, 2^15 - 1] the test's encoder returns a wire word in
\* [0, 2^16 - 1], and its decoder gives x back from that word.
C38_TestCodecRoundTrip ==
    LET logical == codec.arg \in -32768..32767 IN
    /\ (codec.op = "test_encoder" /\ logical) =>
         (~codec.ret.none /\ codec.ret.value \in 0..65535)
    /\ (codec.op = "test_decoder(test_encoder)" /\ logical) =>
         codec.ret = Value(codec.arg)

=============================================================================
